---- MODULE Spec2Model ----
(***************************************************************************)
(* Model of the quick-nas extension runtime: the path-containment helper   *)
(* validatePath of server.js, the hook chain of lib/PluginManager.js and   *)
(* the file operations of server.js that resolve a target path.            *)
(*                                                                         *)
(* Strings are sequences of tokens.  The token "data" stands for the whole *)
(* directory name of the storage root, "x" for any other name character,   *)
(* "/" for the POSIX separator and "." for a dot.                          *)
(***************************************************************************)
EXTENDS Integers, Sequences, FiniteSets, TLC

VARIABLES userPath, pathResult, cleanedIn, joinResult,
          phase, hooks, regCount, exec, calls, fired,
          files, dirs, request, response, touched, ran, pc, uploaded,
          pluginsDir, pluginDirs, loadIdx, loadPc, plugins, routes, loadLog, initLog,
          folder, metaResult, listing, execs, callLogs, deletes, installed, accessLog,
          uploadDir, served

pathVars == <<userPath, pathResult>>
joinVars == <<cleanedIn, joinResult>>
hookVars == <<phase, hooks, regCount, exec, calls, fired>>
opVars == <<files, dirs, request, response, touched, ran, pc, uploaded>>
loadVars == <<pluginsDir, pluginDirs, loadIdx, loadPc, plugins, routes, loadLog, initLog>>
metaVars == <<folder, metaResult, listing>>
concVars == <<execs, callLogs, deletes>>
startVars == <<installed, accessLog, uploadDir, served>>
vars == <<userPath, pathResult, cleanedIn, joinResult,
          phase, hooks, regCount, exec, calls, fired,
          files, dirs, request, response, touched, ran, pc, uploaded,
          pluginsDir, pluginDirs, loadIdx, loadPc, plugins, routes, loadLog, initLog,
          folder, metaResult, listing, execs, callLogs, deletes, installed, accessLog,
          uploadDir, served>>

(***************************************************************************)
(* Bounds                                                                  *)
(***************************************************************************)
MaxLen == 5

\* callbacks registered in one startup
MaxCallbacks == 3

\* length of a path given in a request to a file operation
MaxPathLen == 4

\* length of a file or folder name given in a request
MaxNameLen == 2

\* entries of the plugins directory
MaxEntries == 2

\* children of the summarized folder
MaxChildren == 4

\* children of a subdirectory of the summarized folder
MaxSubItems == 1

\* calls of addRoute in one startup
MaxRoutes == 3

\* calls of getPluginInfo and getRoutes after the one start() makes
MaxAccessorCalls == 2

Chars == {"/", ".", "data", "x"}

StringsUpTo(n) == UNION {[1..k -> Chars] : k \in 0..n}

Strings == StringsUpTo(MaxLen)

(***************************************************************************)
(* String primitives used by server.js                                     *)
(***************************************************************************)
RECURSIVE dropLeadingSlashes(_)
dropLeadingSlashes(s) ==
    IF s # <<>> /\ Head(s) = "/" THEN dropLeadingSlashes(Tail(s)) ELSE s

RECURSIVE dropTrailingSlashes(_)
dropTrailingSlashes(s) ==
    IF s # <<>> /\ s[Len(s)] = "/"
    THEN dropTrailingSlashes(SubSeq(s, 1, Len(s) - 1))
    ELSE s

\* userPath.replace(/^\/+|\/+$/g, '')
stripSlashes(s) == dropTrailingSlashes(dropLeadingSlashes(s))

\* String.prototype.includes
includes(s, sub) ==
    \E i \in 1..(Len(s) - Len(sub) + 1) : SubSeq(s, i, i + Len(sub) - 1) = sub

\* String.prototype.startsWith
startsWith(s, prefix) ==
    Len(s) >= Len(prefix) /\ SubSeq(s, 1, Len(prefix)) = prefix

\* path.isAbsolute (POSIX)
isAbsolute(s) == Len(s) > 0 /\ s[1] = "/"

(***************************************************************************)
(* path.normalize / path.join (POSIX)                                      *)
(***************************************************************************)
\* the pieces of s between separators, empty pieces included
RECURSIVE splitAt(_, _)
splitAt(s, cur) ==
    IF s = <<>> THEN <<cur>>
    ELSE IF Head(s) = "/" THEN <<cur>> \o splitAt(Tail(s), <<>>)
    ELSE splitAt(Tail(s), Append(cur, Head(s)))

split(s) == splitAt(s, <<>>)

RECURSIVE joinSegments(_)
joinSegments(segs) ==
    IF segs = <<>> THEN <<>>
    ELSE IF Len(segs) = 1 THEN segs[1]
    ELSE segs[1] \o <<"/">> \o joinSegments(Tail(segs))

\* resolves "." and ".." pieces; res is the list of pieces kept so far
RECURSIVE normalizeString(_, _, _)
normalizeString(segs, res, allowAboveRoot) ==
    IF segs = <<>> THEN res
    ELSE LET seg == Head(segs)
             rest == Tail(segs)
         IN  IF seg = <<>> \/ seg = <<".">>
             THEN normalizeString(rest, res, allowAboveRoot)
             ELSE IF seg = <<".", ".">>
             THEN IF res # <<>> /\ res[Len(res)] # <<".", ".">>
                  THEN normalizeString(rest, SubSeq(res, 1, Len(res) - 1), allowAboveRoot)
                  ELSE IF allowAboveRoot
                  THEN normalizeString(rest, Append(res, seg), allowAboveRoot)
                  ELSE normalizeString(rest, res, allowAboveRoot)
             ELSE normalizeString(rest, Append(res, seg), allowAboveRoot)

normalize(p) ==
    IF p = <<>> THEN <<".">>
    ELSE LET abs == isAbsolute(p)
             trailingSeparator == p[Len(p)] = "/"
             body == joinSegments(normalizeString(split(p), <<>>, ~abs))
         IN  IF body = <<>>
             THEN IF abs THEN <<"/">>
                  ELSE IF trailingSeparator THEN <<".", "/">> ELSE <<".">>
             ELSE (IF abs THEN <<"/">> ELSE <<>>) \o body
                  \o (IF trailingSeparator THEN <<"/">> ELSE <<>>)

\* path.join(a, b): empty arguments are skipped, the rest joined and normalized
pathJoin(a, b) ==
    IF a = <<>> /\ b = <<>> THEN <<".">>
    ELSE IF a = <<>> THEN normalize(b)
    ELSE IF b = <<>> THEN normalize(a)
    ELSE normalize(a \o <<"/">> \o b)

(***************************************************************************)
(* validatePath                                                            *)
(***************************************************************************)
UPLOAD_DIR == <<"/", "data">>

Ok(p) == [kind |-> "ok", path |-> p, message |-> ""]
Err(m) == [kind |-> "error", path |-> <<>>, message |-> m]
NoResult == [kind |-> "none", path |-> <<>>, message |-> ""]

\* lines 58-66: join with the root, then the containment check
joinAndCheck(cleaned) ==
    LET fullPath == pathJoin(UPLOAD_DIR, cleaned)
    IN  IF ~startsWith(fullPath, UPLOAD_DIR)
        THEN Err("Path outside storage directory")
        ELSE Ok(fullPath)

\* the traversal test reduced to a test of the first characters
isTraversal_PrefixOnly(cleaned) ==
    startsWith(cleaned, <<".", ".">>) \/ isAbsolute(cleaned)

\* the traversal test without the test for ".."
isTraversal_NoDotDot(cleaned) == isAbsolute(cleaned)

\* line 54
isTraversal(cleaned) ==
    includes(cleaned, <<".", ".">>) \/ isAbsolute(cleaned)

\* cleaning that leaves the leading separators in place
cleanPath_KeepLeading(s) == dropTrailingSlashes(s)

\* line 51
cleanPath(s) == stripSlashes(s)

\* line 46: !userPath || userPath === '/'
isRootRequest(s) == s = <<>> \/ s = <<"/">>

\* the early return answering the filesystem root
rootResult_Slash == Ok(<<"/">>)

\* line 47
rootResult == Ok(UPLOAD_DIR)

validatePath(s) ==
    IF isRootRequest(s) THEN rootResult
    ELSE LET cleaned == cleanPath(s)
         IN  IF isTraversal(cleaned) THEN Err("Invalid path")
             ELSE joinAndCheck(cleaned)

(***************************************************************************)
(* Path vocabulary of the properties                                       *)
(***************************************************************************)
\* the non-empty pieces of a path
Segments(p) == SelectSeq(split(p), LAMBDA seg : seg # <<>>)

IsSegPrefix(a, b) == Len(a) <= Len(b) /\ SubSeq(b, 1, Len(a)) = a

\* p is the storage root or a descendant of it, segment-wise
InsideRoot(p) ==
    /\ isAbsolute(p)
    /\ IsSegPrefix(Segments(UPLOAD_DIR), Segments(p))
    /\ \A i \in 1..Len(Segments(p)) :
          Segments(p)[i] # <<".", ".">> /\ Segments(p)[i] # <<".">>

HasDotDotSegment(s) == \E i \in 1..Len(Segments(s)) : Segments(s)[i] = <<".", ".">>

(***************************************************************************)
(* PluginManager: hook registration and the hook chain                     *)
(***************************************************************************)
\* hook names a chain is registered and executed for
HookNames ==
    {"beforeUpload", "afterUpload", "beforeDownload", "afterDownload",
     "beforeDelete", "afterDelete", "transformFileList"}

\* the hook names the chain specification registers and executes;
\* registerHook and executeHook treat every name alike
ChainNames == {"beforeDelete", "afterDelete"}

\* what a callback does with the payload it is given: return a new payload,
\* return undefined, throw (reject with) an Error, throw null or undefined,
\* or, the first time it runs, call the registerHook it kept from its init
\* context and return undefined
CallbackKinds == {"value", "void", "throw", "throwNull", "register"}

\* a payload is the list of the transformations applied to it
Payloads == {<<0>>, <<0, 0>>}

\* this.hooks of the constructor: a Map without keys
NoHooks == [h \in {} |-> <<>>]

\* this.hooks.get(hookName) || []
callbacksOf(hs, hookName) == IF hookName \in DOMAIN hs THEN hs[hookName] ELSE <<>>

\* registration that replaces the chain of the hook name
registerHook_Replace(hs, hookName, callback) ==
    [h \in DOMAIN hs \cup {hookName} |->
        IF h = hookName THEN <<callback>> ELSE hs[h]]

\* registration at the front of the chain
registerHook_Prepend(hs, hookName, callback) ==
    [h \in DOMAIN hs \cup {hookName} |->
        IF h = hookName THEN <<callback>> \o callbacksOf(hs, h) ELSE hs[h]]

\* lines 116-121
registerHook(hs, hookName, callback) ==
    [h \in DOMAIN hs \cup {hookName} |->
        IF h = hookName THEN Append(callbacksOf(hs, h), callback) ELSE hs[h]]

\* the value null as a payload
NullPayload == <<-1>>

\* await callback(result): the value returned, undefined, or an exception;
\* a "hang" or "spin" callback that does not stall (see stalls) returns
\* undefined
invokeCallback(callback, arg) ==
    CASE callback.kind = "value" ->
            [threw |-> FALSE, nullish |-> FALSE, undefined |-> FALSE,
             value |-> Append(arg, callback.id)]
      [] callback.kind \in {"void", "register", "hang", "spin"} ->
            [threw |-> FALSE, nullish |-> FALSE, undefined |-> TRUE, value |-> <<>>]
      [] callback.kind = "throw" ->
            [threw |-> TRUE, nullish |-> FALSE, undefined |-> TRUE, value |-> <<>>]
      [] callback.kind = "throwNull" ->
            [threw |-> TRUE, nullish |-> TRUE, undefined |-> TRUE, value |-> <<>>]
      [] callback.kind = "noFiles" ->
            [threw |-> FALSE, nullish |-> FALSE, undefined |-> FALSE, value |-> <<>>]
      [] callback.kind = "null" ->
            [threw |-> FALSE, nullish |-> FALSE, undefined |-> FALSE, value |-> NullPayload]

\* a loop body that takes undefined as the new payload
hookStep_UndefinedReplaces(callback, result) ==
    LET r == invokeCallback(callback, result)
    IN  IF r.threw THEN [result |-> result, propagated |-> r.nullish]
        ELSE IF ~r.undefined THEN [result |-> r.value, propagated |-> FALSE]
        ELSE [result |-> <<>>, propagated |-> FALSE]

\* lines 146-155: one iteration of the loop.  The catch block logs
\* error.message (line 153); reading .message of null or undefined throws a
\* TypeError inside the catch block, which leaves executeHook
hookStep(callback, result) ==
    LET r == invokeCallback(callback, result)
    IN  IF r.threw THEN [result |-> result, propagated |-> r.nullish]
        ELSE IF ~r.undefined THEN [result |-> r.value, propagated |-> FALSE]
        ELSE [result |-> result, propagated |-> FALSE]

\* the callback a "register" callback adds
LateCallback(id) == [id |-> id, kind |-> "value"]

\* the hooks after callback ran for hookName: a "register" callback that has
\* not fired yet calls registerHook (lines 116-121) for the same hook name
hooksAfter(hs, hookName, callback, firedIds, newId) ==
    IF callback.kind = "register" /\ callback.id \notin firedIds
    THEN registerHook(hs, hookName, LateCallback(newId))
    ELSE hs

\* an early return that returns nothing
earlyReturn_Nothing(data) == <<>>

\* lines 139-141: if (!callbacks || callbacks.length === 0) return data
earlyReturn(data) == data

(***************************************************************************)
(* executeHook as one call, for the handlers that await it                 *)
(***************************************************************************)
RECURSIVE runChain(_, _, _)
runChain(callbacks, i, result) ==
    IF i > Len(callbacks) THEN [threw |-> FALSE, value |-> result]
    ELSE LET step == hookStep(callbacks[i], result)
         IN  IF step.propagated THEN [threw |-> TRUE, value |-> result]
             ELSE runChain(callbacks, i + 1, step.result)

\* lines 136-159
executeHook(hs, hookName, data) ==
    LET callbacks == callbacksOf(hs, hookName)
    IN  IF Len(callbacks) = 0 THEN [threw |-> FALSE, value |-> earlyReturn(data)]
        ELSE runChain(callbacks, 1, data)

(***************************************************************************)
(* The disk: the set of regular files and the set of directories, each an  *)
(* absolute normalized path without trailing separator                     *)
(***************************************************************************)
InitialFiles ==
    {<<"/", "x">>, <<"/", "data", "/", "x">>, <<"/", "data", "/", "data", "/", "x">>}

InitialDirs == {<<"/">>, <<"/", "data">>, <<"/", "data", "/", "data">>}

absPath(segs) == <<"/">> \o joinSegments(segs)

\* the directory a path with a trailing separator names
canon(p) == IF Len(p) > 1 /\ p[Len(p)] = "/" THEN SubSeq(p, 1, Len(p) - 1) ELSE p

isDirectory(d, p) == canon(p) \in d

isFile(f, p) == p \in f

\* an access check that finds whatever it is asked for
existsPath_Always(f, d, p) == TRUE

\* fs.access / fs.stat succeed
existsPath(f, d, p) == isFile(f, p) \/ isDirectory(d, p)

\* path.dirname
dirname(p) ==
    LET segs == Segments(p)
    IN  IF Len(segs) <= 1
        THEN IF isAbsolute(p) THEN <<"/">> ELSE <<".">>
        ELSE (IF isAbsolute(p) THEN <<"/">> ELSE <<>>)
             \o joinSegments(SubSeq(segs, 1, Len(segs) - 1))

\* path.basename, applied by the multipart parser to the uploaded file's name
basename(p) ==
    LET segs == Segments(p)
    IN  IF segs = <<>> THEN <<>> ELSE segs[Len(segs)]

\* q is p or lies below p
under(p, q) == IsSegPrefix(Segments(p), Segments(q))

childrenOf(f, d, p) == {q \in f \cup d : q # <<"/">> /\ dirname(q) = canon(p)}

\* the directories fs.mkdir(p, {recursive: true}) needs
ancestorsAndSelf(p) ==
    {absPath(SubSeq(Segments(p), 1, k)) : k \in 1..Len(Segments(p))}

Touch(how, p) == [how |-> how, path |-> p]

Reply(status, f, d, t, r) ==
    [status |-> status, files |-> f, dirs |-> d, touched |-> t, ran |-> r]

\* the payload handed to a chain by a handler
OpPayload == <<0>>

\* lines 153-157, 241-245: both messages are answered 400
pathErrorStatusBoth(v) == 400

\* lines 285-289, 320-324, 374-378: only 'Invalid path' is answered 400
pathErrorStatusInvalidOnly(v) == IF v.message = "Invalid path" THEN 400 ELSE 500

\* lines 259, 339
invalidName(name) ==
    includes(name, <<"/">>) \/ name = <<".">> \/ name = <<".", ".">>

\* lines 98-159: GET /api/files
handleList(f, d, hs, queryPath) ==
    LET requestedPath == IF queryPath = <<>> THEN <<"/">> ELSE queryPath
        v == validatePath(requestedPath)
    IN  IF v.kind = "error" THEN Reply(pathErrorStatusBoth(v), f, d, {}, <<>>)
        ELSE IF ~existsPath(f, d, v.path) THEN Reply(500, f, d, {}, <<>>)
        ELSE IF ~isDirectory(d, v.path) THEN Reply(400, f, d, {}, <<>>)
        ELSE LET items == childrenOf(f, d, v.path)
                 subItems == UNION {childrenOf(f, d, q) : q \in items \cap d}
                 reads == {Touch("read", q) : q \in {canon(v.path)} \cup items \cup subItems}
                 h == executeHook(hs, "transformFileList", OpPayload)
             IN  Reply(IF h.threw THEN 500 ELSE 200, f, d, reads, <<"transformFileList">>)

\* lines 162-247: POST /api/upload with at most one file part
handleUpload(f, d, hs, queryPath, fileName) ==
    LET requestedPath == IF queryPath = <<>> THEN <<"/">> ELSE queryPath
        v == validatePath(requestedPath)
    IN  IF v.kind = "error" THEN Reply(pathErrorStatusBoth(v), f, d, {}, <<>>)
        ELSE IF ancestorsAndSelf(v.path) \cap f # {} THEN Reply(500, f, d, {}, <<>>)
        ELSE LET made == ancestorsAndSelf(v.path) \ d
                 d1 == d \cup made
                 t1 == {Touch("write", q) : q \in made}
                 originalname == basename(fileName)
                 target == pathJoin(v.path, originalname)
             IN  IF originalname = <<>> THEN Reply(400, f, d1, t1, <<>>)
                 ELSE IF isDirectory(d1, target) THEN Reply(500, f, d1, t1, <<>>)
                 ELSE LET f1 == f \cup {target}
                          t2 == t1 \cup {Touch("write", target)}
                          before == executeHook(hs, "beforeUpload", OpPayload)
                          after == executeHook(hs, "afterUpload", OpPayload)
                      IN  IF before.threw
                          THEN Reply(400, f1 \ {target}, d1,
                                     t2 \cup {Touch("remove", target)}, <<"beforeUpload">>)
                          ELSE Reply(IF after.threw THEN 500 ELSE 200, f1, d1, t2,
                                     <<"beforeUpload", "afterUpload">>)

\* lines 250-291: POST /api/folders
handleCreateFolder(f, d, folderPath, name) ==
    IF name = <<>> THEN Reply(400, f, d, {}, <<>>)
    ELSE IF invalidName(name) THEN Reply(400, f, d, {}, <<>>)
    ELSE LET v == validatePath(IF folderPath = <<>> THEN <<"/">> ELSE folderPath)
         IN  IF v.kind = "error" THEN Reply(pathErrorStatusInvalidOnly(v), f, d, {}, <<>>)
             ELSE LET newFolderPath == pathJoin(v.path, name)
                  IN  IF existsPath(f, d, newFolderPath) THEN Reply(409, f, d, {}, <<>>)
                      ELSE IF ~isDirectory(d, v.path) THEN Reply(500, f, d, {}, <<>>)
                      ELSE Reply(200, f, d \cup {newFolderPath},
                                 {Touch("write", newFolderPath)}, <<>>)

\* lines 294-326: DELETE /api/folders/*
handleDeleteFolder(f, d, folderPath) ==
    IF folderPath = <<>> THEN Reply(400, f, d, {}, <<>>)
    ELSE LET v == validatePath(folderPath)
         IN  IF v.kind = "error" THEN Reply(pathErrorStatusInvalidOnly(v), f, d, {}, <<>>)
             ELSE IF ~existsPath(f, d, v.path) THEN Reply(404, f, d, {}, <<>>)
             ELSE IF ~isDirectory(d, v.path) THEN Reply(400, f, d, {}, <<>>)
             ELSE Reply(200, {q \in f : ~under(v.path, q)}, {q \in d : ~under(v.path, q)},
                        {Touch("remove", q) : q \in {q \in f \cup d : under(v.path, q)}}, <<>>)

\* the path a renamed entry q of oldPath gets below newPath
movedTo(oldPath, newPath, q) ==
    absPath(Segments(newPath)
            \o SubSeq(Segments(q), Len(Segments(oldPath)) + 1, Len(Segments(q))))

\* lines 329-380: PUT /api/folders/*
handleRenameFolder(f, d, folderPath, newName) ==
    IF newName = <<>> THEN Reply(400, f, d, {}, <<>>)
    ELSE IF invalidName(newName) THEN Reply(400, f, d, {}, <<>>)
    ELSE LET v == validatePath(folderPath)
         IN  IF v.kind = "error" THEN Reply(pathErrorStatusInvalidOnly(v), f, d, {}, <<>>)
             ELSE LET oldPath == v.path
                      parentDir == dirname(oldPath)
                      newPath == pathJoin(parentDir, newName)
                      movedFiles == {q \in f : under(oldPath, q)}
                      movedDirs == {q \in d : under(oldPath, q)}
                  IN  IF ~existsPath(f, d, oldPath) THEN Reply(404, f, d, {}, <<>>)
                      ELSE IF ~isDirectory(d, oldPath) THEN Reply(400, f, d, {}, <<>>)
                      ELSE IF existsPath(f, d, newPath) THEN Reply(409, f, d, {}, <<>>)
                      ELSE Reply(200,
                             (f \ movedFiles) \cup {movedTo(oldPath, newPath, q) : q \in movedFiles},
                             (d \ movedDirs) \cup {movedTo(oldPath, newPath, q) : q \in movedDirs},
                             {Touch("remove", canon(oldPath)), Touch("write", newPath)}, <<>>)

\* lines 383-419: GET /api/download/:filename
handleDownload(f, d, hs, filename) ==
    LET filePath == pathJoin(UPLOAD_DIR, filename)
        before == executeHook(hs, "beforeDownload", OpPayload)
    IN  IF ~existsPath(f, d, filePath) THEN Reply(404, f, d, {}, <<>>)
        ELSE IF before.threw THEN Reply(403, f, d, {}, <<"beforeDownload">>)
        ELSE IF ~isFile(f, filePath) THEN Reply(0, f, d, {}, <<"beforeDownload">>)
        ELSE Reply(200, f, d, {Touch("read", filePath)},
                   <<"beforeDownload", "afterDownload">>)

\* lines 422-458: DELETE /api/files/:filename
handleDeleteFile(f, d, hs, filename) ==
    LET filePath == pathJoin(UPLOAD_DIR, filename)
        before == executeHook(hs, "beforeDelete", OpPayload)
        after == executeHook(hs, "afterDelete", OpPayload)
    IN  IF ~existsPath(f, d, filePath) THEN Reply(404, f, d, {}, <<>>)
        ELSE IF before.threw THEN Reply(403, f, d, {}, <<"beforeDelete">>)
        ELSE IF ~isFile(f, filePath) THEN Reply(500, f, d, {}, <<"beforeDelete">>)
        ELSE Reply(IF after.threw THEN 500 ELSE 200, f \ {filePath}, d,
                   {Touch("remove", filePath)}, <<"beforeDelete", "afterDelete">>)

NoRequest == [op |-> "none", path |-> <<>>, name |-> <<>>]

IdleOps ==
    /\ files = InitialFiles
    /\ dirs = InitialDirs
    /\ request = NoRequest
    /\ response = -1
    /\ touched = {}
    /\ ran = <<>>
    /\ pc = "idle"
    /\ uploaded = {}

\* the plugin loader at rest: nothing listed, nothing loaded
IdleLoad ==
    /\ pluginsDir = [exists |-> TRUE, entries |-> <<>>]
    /\ pluginDirs = <<>>
    /\ loadIdx = 0
    /\ loadPc = "none"
    /\ plugins = <<>>
    /\ routes = <<>>
    /\ loadLog = <<>>
    /\ initLog = <<>>

IdleExec ==
    [status |-> "idle", hook |-> "", data |-> <<>>, idx |-> 0,
     result |-> <<>>, returnValue |-> <<>>]

\* the operations that can be in flight together
Operations == {"opA", "opB"}

NoMeta == [kind |-> "none", itemCount |-> 0, totalSize |-> 0]

\* no folder summarized, no concurrent hook executions, no routes
\* installed, no accessor called
\* a delete-file request that has not arrived
IdleDelete == [pc |-> "idle", name |-> <<>>, response |-> -1, ran |-> <<>>]

\* no answer of GET /api/files yet
NoListing == [status |-> -1, body |-> <<>>, transformedBy |-> <<>>]

\* no request has been dispatched to a route
NotServed == [owner |-> "", method |-> "", path |-> "", call |-> -1]

IdleRest ==
    /\ folder = <<>>
    /\ metaResult = NoMeta
    /\ listing = NoListing
    /\ execs = [c \in Operations |-> IdleExec]
    /\ callLogs = [c \in Operations |-> <<>>]
    /\ deletes = [c \in Operations |-> IdleDelete]
    /\ installed = <<>>
    /\ accessLog = <<>>
    /\ uploadDir = UPLOAD_DIR
    /\ served = NotServed

InitHook ==
    /\ phase = "loading"
    /\ hooks = NoHooks
    /\ regCount = 0
    /\ exec = IdleExec
    /\ calls = <<>>
    /\ fired = {}
    /\ IdleOps
    /\ IdleLoad
    /\ IdleRest
    /\ userPath = <<>>
    /\ pathResult = NoResult
    /\ cleanedIn = <<>>
    /\ joinResult = NoResult

\* a plugin's init calls context.registerHook (line 80)
RegisterHook(hookName, kind) ==
    /\ phase = "loading"
    /\ regCount < MaxCallbacks
    /\ regCount' = regCount + 1
    /\ hooks' = registerHook(hooks, hookName, [id |-> regCount + 1, kind |-> kind])
    /\ UNCHANGED <<phase, exec, calls, fired, pathVars, joinVars, opVars, loadVars, metaVars, concVars, startVars>>

\* loadPlugins has returned and the server listens
StartServing ==
    /\ phase = "loading"
    /\ phase' = "serving"
    /\ UNCHANGED <<hooks, regCount, exec, calls, fired, pathVars, joinVars, opVars, loadVars, metaVars, concVars, startVars>>

\* lines 136-143: the call, up to the first await
ExecuteHookCall(hookName, data) ==
    /\ phase = "serving"
    /\ exec.status = "idle"
    /\ calls' = <<>>
    /\ exec' = IF Len(callbacksOf(hooks, hookName)) = 0
               THEN [status |-> "returned", hook |-> hookName, data |-> data,
                     idx |-> 0, result |-> data, returnValue |-> earlyReturn(data)]
               ELSE [status |-> "running", hook |-> hookName, data |-> data,
                     idx |-> 1, result |-> data, returnValue |-> <<>>]
    /\ UNCHANGED <<phase, hooks, regCount, fired, pathVars, joinVars, opVars, loadVars, metaVars, concVars, startVars>>

\* lines 145-156: one iteration of for (const callback of callbacks)
ExecuteHookIterate ==
    /\ exec.status = "running"
    /\ exec.idx <= Len(callbacksOf(hooks, exec.hook))
    /\ LET callback == callbacksOf(hooks, exec.hook)[exec.idx]
           step == hookStep(callback, exec.result)
       IN  /\ calls' = Append(calls, [id |-> callback.id, arg |-> exec.result])
           /\ exec' = IF step.propagated
                      THEN [exec EXCEPT !.status = "threw"]
                      ELSE [exec EXCEPT !.result = step.result, !.idx = @ + 1]
           /\ hooks' = hooksAfter(hooks, exec.hook, callback, fired, regCount + 1)
           /\ regCount' = IF hooks' = hooks THEN regCount ELSE regCount + 1
           /\ fired' = IF callback.kind = "register" THEN fired \cup {callback.id} ELSE fired
    /\ UNCHANGED <<phase, pathVars, joinVars, opVars, loadVars, metaVars, concVars, startVars>>

\* line 158
ExecuteHookReturn ==
    /\ exec.status = "running"
    /\ exec.idx > Len(callbacksOf(hooks, exec.hook))
    /\ exec' = [exec EXCEPT !.status = "returned", !.returnValue = exec.result]
    /\ UNCHANGED <<phase, hooks, regCount, calls, fired, pathVars, joinVars, opVars, loadVars, metaVars, concVars, startVars>>

NextHook ==
    \/ \E h \in ChainNames, k \in CallbackKinds : RegisterHook(h, k)
    \/ StartServing
    \/ \E h \in ChainNames, d \in Payloads : ExecuteHookCall(h, d)
    \/ ExecuteHookIterate
    \/ ExecuteHookReturn

SpecHook == InitHook /\ [][NextHook]_vars

(***************************************************************************)
(* Specification of validatePath as a function of its input                *)
(***************************************************************************)
InitPath ==
    /\ userPath \in Strings
    /\ pathResult = NoResult
    /\ cleanedIn = <<>>
    /\ joinResult = NoResult
    /\ phase = "loading"
    /\ hooks = NoHooks
    /\ regCount = 0
    /\ exec = IdleExec
    /\ calls = <<>>
    /\ fired = {}
    /\ IdleOps
    /\ IdleLoad
    /\ IdleRest

ValidatePath ==
    /\ pathResult.kind = "none"
    /\ pathResult' = validatePath(userPath)
    /\ UNCHANGED <<userPath, joinVars, hookVars, opVars, loadVars, metaVars, concVars, startVars>>

NextPath == ValidatePath

SpecPath == InitPath /\ [][NextPath]_vars

(***************************************************************************)
(* Specification of lines 58-66 alone, on every string they can be given   *)
(***************************************************************************)
InitJoin ==
    /\ cleanedIn \in {s \in Strings : cleanPath(s) = s}
    /\ joinResult = NoResult
    /\ userPath = <<>>
    /\ pathResult = NoResult
    /\ phase = "loading"
    /\ hooks = NoHooks
    /\ regCount = 0
    /\ exec = IdleExec
    /\ calls = <<>>
    /\ fired = {}
    /\ IdleOps
    /\ IdleLoad
    /\ IdleRest

JoinAndCheck ==
    /\ joinResult.kind = "none"
    /\ joinResult' = joinAndCheck(cleanedIn)
    /\ UNCHANGED <<cleanedIn, pathVars, hookVars, opVars, loadVars, metaVars, concVars, startVars>>

NextJoin == JoinAndCheck

SpecJoin == InitJoin /\ [][NextJoin]_vars

(***************************************************************************)
(* Specification of the file operations: one request against the initial   *)
(* disk, after startup                                                     *)
(***************************************************************************)
HookOrder ==
    <<"beforeUpload", "afterUpload", "beforeDownload", "afterDownload",
      "beforeDelete", "afterDelete", "transformFileList">>

\* one plugin that registered a callback of kind k for every hook name
HooksOfKind(k) ==
    [h \in HookNames |->
        <<[id |-> CHOOSE i \in 1..Len(HookOrder) : HookOrder[i] = h, kind |-> k]>>]

PathInputs == StringsUpTo(MaxPathLen)

NameInputs == StringsUpTo(MaxNameLen)

InitOps ==
    /\ phase = "serving"
    /\ \E k \in (CallbackKinds \ {"register"}) \cup {"none"} :
          /\ hooks = IF k = "none" THEN NoHooks ELSE HooksOfKind(k)
          /\ regCount = IF k = "none" THEN 0 ELSE Len(HookOrder)
    /\ exec = IdleExec
    /\ calls = <<>>
    /\ fired = {}
    /\ IdleOps
    /\ IdleLoad
    /\ IdleRest
    /\ userPath = <<>>
    /\ pathResult = NoResult
    /\ cleanedIn = <<>>
    /\ joinResult = NoResult

Idle == phase = "serving" /\ request.op = "none"

Handled(op, path, name, reply) ==
    /\ request' = [op |-> op, path |-> path, name |-> name]
    /\ response' = reply.status
    /\ files' = reply.files
    /\ dirs' = reply.dirs
    /\ touched' = reply.touched
    /\ ran' = reply.ran
    /\ UNCHANGED <<pc, uploaded, pathVars, joinVars, hookVars, loadVars, metaVars, concVars, startVars>>

\* a route parameter is never empty
Download ==
    /\ Idle
    /\ \E filename \in PathInputs \ {<<>>} :
          Handled("download", <<>>, filename,
                  handleDownload(files, dirs, hooks, filename))

DeleteFile ==
    /\ Idle
    /\ \E filename \in PathInputs \ {<<>>} :
          Handled("deleteFile", <<>>, filename,
                  handleDeleteFile(files, dirs, hooks, filename))

ListFiles ==
    /\ Idle
    /\ \E path \in PathInputs :
          Handled("list", path, <<>>, handleList(files, dirs, hooks, path))

Upload ==
    /\ Idle
    /\ \E path \in PathInputs, name \in NameInputs :
          Handled("upload", path, name, handleUpload(files, dirs, hooks, path, name))

CreateFolder ==
    /\ Idle
    /\ \E path \in PathInputs, name \in NameInputs :
          Handled("createFolder", path, name,
                  handleCreateFolder(files, dirs, path, name))

DeleteFolder ==
    /\ Idle
    /\ \E path \in PathInputs :
          Handled("deleteFolder", path, <<>>, handleDeleteFolder(files, dirs, path))

RenameFolder ==
    /\ Idle
    /\ \E path \in PathInputs, name \in NameInputs :
          Handled("renameFolder", path, name,
                  handleRenameFolder(files, dirs, path, name))

NextOps ==
    \/ Download
    \/ DeleteFile
    \/ ListFiles
    \/ Upload
    \/ CreateFolder
    \/ DeleteFolder
    \/ RenameFolder

SpecOps == InitOps /\ [][NextOps]_vars

(***************************************************************************)
(* Specification of the path resolution of a request in a process started  *)
(* with some UPLOAD_DIR: each handler up to the result of validatePath and *)
(* the answer its catch block gives to a thrown error.  Status 0 stands    *)
(* for "resolved, the handler goes on".                                    *)
(***************************************************************************)
\* line 11: process.env.UPLOAD_DIR || '/data'; the same directory named
\* absolutely, relative to the working directory /, and with a leading "./"
UploadDirs == {UPLOAD_DIR, <<"data">>, <<".", "/", "data">>}

\* lines 45-67 with the root the process was started with
validatePathIn(root, s) ==
    IF isRootRequest(s) THEN Ok(root)
    ELSE LET cleaned == cleanPath(s)
             fullPath == pathJoin(root, cleaned)
         IN  IF isTraversal(cleaned) THEN Err("Invalid path")
             ELSE IF ~startsWith(fullPath, root)
             THEN Err("Path outside storage directory")
             ELSE Ok(fullPath)

\* lines 100-102, 153-157: GET /api/files
resolveList(root, queryPath) ==
    LET v == validatePathIn(root, IF queryPath = <<>> THEN <<"/">> ELSE queryPath)
    IN  [status |-> IF v.kind = "error" THEN pathErrorStatusBoth(v) ELSE 0, result |-> v]

\* lines 165-166, 239-245: POST /api/upload
resolveUpload(root, queryPath) ==
    LET v == validatePathIn(root, IF queryPath = <<>> THEN <<"/">> ELSE queryPath)
    IN  [status |-> IF v.kind = "error" THEN pathErrorStatusBoth(v) ELSE 0, result |-> v]

\* lines 252-264, 283-289: POST /api/folders
resolveCreateFolder(root, folderPath, name) ==
    IF name = <<>> \/ invalidName(name) THEN [status |-> 400, result |-> NoResult]
    ELSE LET v == validatePathIn(root, IF folderPath = <<>> THEN <<"/">> ELSE folderPath)
         IN  [status |-> IF v.kind = "error" THEN pathErrorStatusInvalidOnly(v) ELSE 0,
              result |-> v]

\* lines 296-302, 318-324: DELETE /api/folders/*
resolveDeleteFolder(root, folderPath) ==
    IF folderPath = <<>> THEN [status |-> 400, result |-> NoResult]
    ELSE LET v == validatePathIn(root, folderPath)
         IN  [status |-> IF v.kind = "error" THEN pathErrorStatusInvalidOnly(v) ELSE 0,
              result |-> v]

\* lines 331-343, 372-378: PUT /api/folders/*
resolveRenameFolder(root, folderPath, newName) ==
    IF newName = <<>> \/ invalidName(newName) THEN [status |-> 400, result |-> NoResult]
    ELSE LET v == validatePathIn(root, folderPath)
         IN  [status |-> IF v.kind = "error" THEN pathErrorStatusInvalidOnly(v) ELSE 0,
              result |-> v]

InitEnv ==
    /\ phase = "serving"
    /\ hooks = NoHooks
    /\ regCount = 0
    /\ exec = IdleExec
    /\ calls = <<>>
    /\ fired = {}
    /\ IdleOps
    /\ IdleLoad
    /\ userPath = <<>>
    /\ pathResult = NoResult
    /\ cleanedIn = <<>>
    /\ joinResult = NoResult
    /\ folder = <<>>
    /\ metaResult = NoMeta
    /\ listing = NoListing
    /\ execs = [c \in Operations |-> IdleExec]
    /\ callLogs = [c \in Operations |-> <<>>]
    /\ deletes = [c \in Operations |-> IdleDelete]
    /\ installed = <<>>
    /\ accessLog = <<>>
    /\ uploadDir \in UploadDirs
    /\ served = NotServed

Resolved(op, path, name, r) ==
    /\ request' = [op |-> op, path |-> path, name |-> name]
    /\ response' = r.status
    /\ pathResult' = r.result
    /\ UNCHANGED <<userPath, files, dirs, touched, ran, pc, uploaded, joinVars, hookVars,
                   loadVars, metaVars, concVars, startVars>>

ResolveList ==
    /\ Idle
    /\ \E path \in PathInputs : Resolved("list", path, <<>>, resolveList(uploadDir, path))

ResolveUpload ==
    /\ Idle
    /\ \E path \in PathInputs :
          Resolved("upload", path, <<>>, resolveUpload(uploadDir, path))

ResolveCreateFolder ==
    /\ Idle
    /\ \E path \in PathInputs, name \in NameInputs :
          Resolved("createFolder", path, name, resolveCreateFolder(uploadDir, path, name))

ResolveDeleteFolder ==
    /\ Idle
    /\ \E path \in PathInputs :
          Resolved("deleteFolder", path, <<>>, resolveDeleteFolder(uploadDir, path))

ResolveRenameFolder ==
    /\ Idle
    /\ \E path \in PathInputs, name \in NameInputs :
          Resolved("renameFolder", path, name, resolveRenameFolder(uploadDir, path, name))

NextEnv ==
    \/ ResolveList
    \/ ResolveUpload
    \/ ResolveCreateFolder
    \/ ResolveDeleteFolder
    \/ ResolveRenameFolder

SpecEnv == InitEnv /\ [][NextEnv]_vars

(***************************************************************************)
(* Specification of one upload request, step by step: the multer           *)
(* middleware stores the file, then the route callback runs the chains     *)
(***************************************************************************)
\* lines 162-194: validatePath, mkdir of the destination, then
\* upload.array('files') stores the file part under its original name;
\* status 0 stands for "stored, the route callback goes on"
storeUpload(f, d, queryPath, fileName) ==
    LET requestedPath == IF queryPath = <<>> THEN <<"/">> ELSE queryPath
        v == validatePath(requestedPath)
        made == ancestorsAndSelf(v.path) \ d
        d1 == d \cup made
        t1 == {Touch("write", q) : q \in made}
        originalname == basename(fileName)
        target == pathJoin(v.path, originalname)
        ended(status, dd, tt) ==
            [status |-> status, files |-> f, dirs |-> dd, touched |-> tt, stored |-> {}]
    IN  IF v.kind = "error" THEN ended(pathErrorStatusBoth(v), d, {})
        ELSE IF ancestorsAndSelf(v.path) \cap f # {} THEN ended(500, d, {})
        ELSE IF originalname = <<>> THEN ended(400, d1, t1)
        ELSE IF isDirectory(d1, target) THEN ended(500, d1, t1)
        ELSE [status |-> 0, files |-> f \cup {target}, dirs |-> d1,
              touched |-> t1 \cup {Touch("write", target)}, stored |-> {target}]

\* the request with query path and file name as given
UploadArrives(path, name) ==
    /\ LET st == storeUpload(files, dirs, path, name)
       IN  /\ request' = [op |-> "upload", path |-> path, name |-> name]
           /\ files' = st.files
           /\ dirs' = st.dirs
           /\ touched' = st.touched
           /\ uploaded' = st.stored
           /\ response' = IF st.status = 0 THEN response ELSE st.status
           /\ pc' = IF st.status = 0 THEN "stored" ELSE "done"
    /\ UNCHANGED <<ran, pathVars, joinVars, hookVars, loadVars, metaVars, concVars,
                   startVars>>

UploadStore ==
    /\ Idle
    /\ pc = "idle"
    /\ \E path \in PathInputs, name \in NameInputs : UploadArrives(path, name)

\* lines 196-213: the beforeUpload chain; a rejection unlinks req.files
UploadBeforeHook ==
    /\ pc = "stored"
    /\ LET before == executeHook(hooks, "beforeUpload", OpPayload)
       IN  /\ ran' = Append(ran, "beforeUpload")
           /\ files' = IF before.threw THEN files \ uploaded ELSE files
           /\ touched' = IF before.threw
                         THEN touched \cup {Touch("remove", q) : q \in uploaded}
                         ELSE touched
           /\ response' = IF before.threw THEN 400 ELSE response
           /\ pc' = IF before.threw THEN "done" ELSE "checked"
    /\ UNCHANGED <<dirs, request, uploaded, pathVars, joinVars, hookVars, loadVars, metaVars, concVars, startVars>>

\* lines 215-236: the afterUpload chain and the answer
UploadAfterHook ==
    /\ pc = "checked"
    /\ LET after == executeHook(hooks, "afterUpload", OpPayload)
       IN  /\ ran' = Append(ran, "afterUpload")
           /\ response' = IF after.threw THEN 500 ELSE 200
           /\ pc' = "done"
    /\ UNCHANGED <<files, dirs, request, touched, uploaded, pathVars, joinVars, hookVars, loadVars, metaVars, concVars, startVars>>

NextUpload ==
    \/ UploadStore
    \/ UploadBeforeHook
    \/ UploadAfterHook

SpecUpload == InitOps /\ [][NextUpload]_vars

(***************************************************************************)
(* Specification of one request with hooks around its effect, step by      *)
(* step: the upload above, a delete-file and a download.  A filesystem     *)
(* call or a transfer that the disk would allow may still fail.            *)
(***************************************************************************)
filePathOf(req) == pathJoin(UPLOAD_DIR, req.name)

\* the file another payload names
ReplacedPath == <<"/", "data", "/", "data", "/", "x">>

\* the filePath field of the payload a before chain returns: the handler's
\* own path in the payload it built (lines 436-440, 397-401), another path
\* once a callback has returned a replacement
payloadFilePath(req, returned) ==
    IF returned = OpPayload THEN filePathOf(req) ELSE ReplacedPath

\* a handler that goes on with the payload the chain returned
effectPath_FromPayload(req, returned) == payloadFilePath(req, returned)

\* lines 386/406, 425/445: the value returned by executeHook is dropped;
\* res.download and fs.unlink get the constant filePath of the handler
effectPath(req, returned) == filePathOf(req)

\* destinations of an upload: the root, a folder that is there, a new
\* folder, a regular file, a rejected path
StepPaths == {<<>>, <<"data">>, <<"x", "x">>, <<"x">>, <<".", ".">>}

\* file parts of an upload: none, a new file, a file that is there, the
\* name of a folder
StepNames == {<<>>, <<"x", "x">>, <<"x">>, <<"data">>}

\* lines 162-194 for those requests
StepUploadStore ==
    /\ Idle
    /\ pc = "idle"
    /\ \E path \in StepPaths, name \in StepNames : UploadArrives(path, name)

StepFrame == <<pathVars, joinVars, hookVars, loadVars, metaVars, concVars, startVars>>

\* lines 424-432: fs.access of the joined path
DeleteAccess ==
    /\ Idle
    /\ pc = "idle"
    /\ \E filename \in PathInputs \ {<<>>} :
          LET found == existsPath(files, dirs, pathJoin(UPLOAD_DIR, filename))
          IN  /\ request' = [op |-> "deleteFile", path |-> <<>>, name |-> filename]
              /\ response' = IF found THEN response ELSE 404
              /\ pc' = IF found THEN "deleteFound" ELSE "done"
    /\ UNCHANGED <<files, dirs, touched, ran, uploaded, StepFrame>>

\* lines 434-443: the beforeDelete chain; a rejection is answered 403
DeleteBeforeHook ==
    /\ pc = "deleteFound"
    /\ LET before == executeHook(hooks, "beforeDelete", OpPayload)
       IN  /\ ran' = Append(ran, "beforeDelete")
           /\ response' = IF before.threw THEN 403 ELSE response
           /\ pc' = IF before.threw THEN "done" ELSE "deleteAllowed"
    /\ UNCHANGED <<files, dirs, request, touched, uploaded, StepFrame>>

\* line 445: fs.unlink; a failure goes to the catch block of lines 454-457
DeleteUnlink ==
    /\ pc = "deleteAllowed"
    /\ LET target == effectPath(request,
                                executeHook(hooks, "beforeDelete", OpPayload).value)
       IN  \E ok \in {isFile(files, target), FALSE} :
          /\ files' = IF ok THEN files \ {target} ELSE files
          /\ touched' = IF ok THEN touched \cup {Touch("remove", target)} ELSE touched
          /\ response' = IF ok THEN response ELSE 500
          /\ pc' = IF ok THEN "deleteUnlinked" ELSE "done"
    /\ UNCHANGED <<dirs, request, ran, uploaded, StepFrame>>

\* lines 447-453: the afterDelete chain and the answer
DeleteAfterHook ==
    /\ pc = "deleteUnlinked"
    /\ LET after == executeHook(hooks, "afterDelete", OpPayload)
       IN  /\ ran' = Append(ran, "afterDelete")
           /\ response' = IF after.threw THEN 500 ELSE 200
           /\ pc' = "done"
    /\ UNCHANGED <<files, dirs, request, touched, uploaded, StepFrame>>

\* lines 385-393: fs.access of the joined path
DownloadAccess ==
    /\ Idle
    /\ pc = "idle"
    /\ \E filename \in PathInputs \ {<<>>} :
          LET found == existsPath(files, dirs, pathJoin(UPLOAD_DIR, filename))
          IN  /\ request' = [op |-> "download", path |-> <<>>, name |-> filename]
              /\ response' = IF found THEN response ELSE 404
              /\ pc' = IF found THEN "downloadFound" ELSE "done"
    /\ UNCHANGED <<files, dirs, touched, ran, uploaded, StepFrame>>

\* lines 395-404: the beforeDownload chain; a rejection is answered 403
DownloadBeforeHook ==
    /\ pc = "downloadFound"
    /\ LET before == executeHook(hooks, "beforeDownload", OpPayload)
       IN  /\ ran' = Append(ran, "beforeDownload")
           /\ response' = IF before.threw THEN 403 ELSE response
           /\ pc' = IF before.threw THEN "done" ELSE "downloadAllowed"
    /\ UNCHANGED <<files, dirs, request, touched, uploaded, StepFrame>>

\* a callback that runs the chain whatever the transfer did
runsAfterDownload_Always(err) == TRUE

\* line 407: if (!err)
runsAfterDownload(err) == ~err

\* line 406: res.download; a directory, or a client that goes away, ends
\* the transfer with an error and without an answer of the handler
DownloadSend ==
    /\ pc = "downloadAllowed"
    /\ LET target == effectPath(request,
                                executeHook(hooks, "beforeDownload", OpPayload).value)
       IN  \E ok \in {isFile(files, target), FALSE} :
          /\ touched' = IF ok THEN touched \cup {Touch("read", target)} ELSE touched
          /\ response' = IF ok THEN 200 ELSE 0
          /\ pc' = IF runsAfterDownload(~ok) THEN "downloadSent" ELSE "done"
    /\ UNCHANGED <<files, dirs, request, ran, uploaded, StepFrame>>

\* lines 408-412: the afterDownload chain, in the callback of res.download
DownloadAfterHook ==
    /\ pc = "downloadSent"
    /\ ran' = Append(ran, "afterDownload")
    /\ pc' = "done"
    /\ UNCHANGED <<files, dirs, request, response, touched, uploaded, StepFrame>>

NextSteps ==
    \/ StepUploadStore
    \/ UploadBeforeHook
    \/ UploadAfterHook
    \/ DeleteAccess
    \/ DeleteBeforeHook
    \/ DeleteUnlink
    \/ DeleteAfterHook
    \/ DownloadAccess
    \/ DownloadBeforeHook
    \/ DownloadSend
    \/ DownloadAfterHook

SpecSteps == InitOps /\ [][NextSteps]_vars

(***************************************************************************)
(* The plugin loader (PluginManager.js lines 16-100)                       *)
(*                                                                         *)
(* An entry of the plugins directory is a name and what the loader finds   *)
(* under it.  Names are sequences of characters; what is found is a record *)
(*   isDir     the entry is a directory                                    *)
(*   hasIndex  index.js exists                                             *)
(*   config    config.json: "absent", "malformed", an object with          *)
(*             enabled false ("enabledFalse") or without enabled           *)
(*             ("noEnabled")                                               *)
(*   module    require(index.js): "ok", throws an Error ("throwsError"),   *)
(*             throws null or undefined ("throwsNull"), exports no init    *)
(*             function ("noInit")                                         *)
(*   init      init registers one hook callback and one route, then        *)
(*             returns ("ok"), throws an Error ("throwsError") or throws   *)
(*             or rejects with null or undefined ("throwsNull")            *)
(*   named     the module exports name, version and description            *)
(***************************************************************************)
PluginNames == {<<"a">>, <<"b">>, <<"_", "a">>, <<".", "a">>}

\* a well-formed plugin
GoodPlugin ==
    [isDir |-> TRUE, hasIndex |-> TRUE, config |-> "absent",
     module |-> "ok", init |-> "ok", named |-> TRUE]

\* the well-formed plugin and every plugin that differs from it in one respect
Profiles ==
    {GoodPlugin,
     [GoodPlugin EXCEPT !.isDir = FALSE],
     [GoodPlugin EXCEPT !.hasIndex = FALSE],
     [GoodPlugin EXCEPT !.named = FALSE]}
    \cup {[GoodPlugin EXCEPT !.config = c] : c \in {"malformed", "enabledFalse", "noEnabled"}}
    \cup {[GoodPlugin EXCEPT !.module = m] : m \in {"throwsError", "throwsNull", "noInit"}}
    \cup {[GoodPlugin EXCEPT !.init = i] : i \in {"throwsError", "throwsNull"}}

DirEntries == [name : PluginNames, found : Profiles]

\* what fs.readdir can return: entries with distinct names, in any order
Listings ==
    UNION {{l \in [1..n -> DirEntries] :
                \A i, j \in 1..n : i # j => l[i].name # l[j].name} : n \in 0..MaxEntries}

\* a filter that only excludes template directories
isCandidate_NoHiddenTest(entry) ==
    entry.found.isDir /\ entry.name[1] # "_"

\* lines 26-28: entry.isDirectory() && !name.startsWith('_') && !name.startsWith('.')
isCandidate(entry) ==
    entry.found.isDir /\ entry.name[1] # "_" /\ entry.name[1] # "."

\* a loop that walks pluginDirs from the end
pluginAt_Backwards(dirList, idx) == dirList[Len(dirList) + 1 - idx]

\* line 32: for (const dir of pluginDirs)
pluginAt(dirList, idx) == dirList[idx]

\* a check that treats every falsy enabled as disabled
isDisabled_Falsy(config) == config \in {"absent", "noEnabled", "enabledFalse"}

\* line 65: config.enabled === false
isDisabled(config) == config = "enabledFalse"

\* lines 97-99 (and 37-39): the catch block logs error.message; whether the
\* block itself throws: reading .message of null or undefined is a TypeError
catchThrows(thrown) == thrown = "nullish"

\* the hook every plugin's init registers a callback for
PluginHook == "beforeUpload"

DeclaredName == <<"plugin">>

\* lines 89-94: plugin.name || pluginName, plugin.version || '1.0.0',
\* plugin.description || ''
describe(pluginName, found) ==
    [key |-> pluginName,
     name |-> IF found.named THEN DeclaredName ELSE pluginName,
     version |-> IF found.named THEN "2.1.0" ELSE "1.0.0",
     description |-> IF found.named THEN "about" ELSE ""]

\* Map.prototype.set: a new key goes last, a known key keeps its place
mapSet(ps, rec) ==
    IF \E i \in 1..Len(ps) : ps[i].key = rec.key
    THEN [i \in 1..Len(ps) |-> IF ps[i].key = rec.key THEN rec ELSE ps[i]]
    ELSE Append(ps, rec)

\* line 126-128
addRoute(rs, owner) == Append(rs, owner)

\* a loader that records the plugin whether or not init completed
afterInit_Always(ps, pluginName, found) == mapSet(ps, describe(pluginName, found))

\* lines 86-94: await plugin.init(context), then this.plugins.set
afterInit(ps, pluginName, found) ==
    IF found.init = "ok" THEN mapSet(ps, describe(pluginName, found)) ELSE ps

\* lines 45-100; init is "none" when plugin.init was not invoked
loadPlugin(hs, rs, ps, pluginName, found, newId) ==
    LET skipped(thrown) ==
            [hooks |-> hs, routes |-> rs, plugins |-> ps, init |-> "none",
             threw |-> thrown # "none" /\ catchThrows(thrown)]
        thrownByInit == CASE found.init = "ok" -> "none"
                          [] found.init = "throwsError" -> "error"
                          [] found.init = "throwsNull" -> "nullish"
    IN  IF ~found.hasIndex THEN skipped("none")
        ELSE IF found.config = "malformed" THEN skipped("error")
        ELSE IF isDisabled(found.config) THEN skipped("none")
        ELSE IF found.module = "throwsError" THEN skipped("error")
        ELSE IF found.module = "throwsNull" THEN skipped("nullish")
        ELSE IF found.module = "noInit" THEN skipped("none")
        ELSE [hooks |-> registerHook(hs, PluginHook,
                                     [id |-> newId, kind |-> "void", owner |-> pluginName]),
              routes |-> addRoute(rs, pluginName),
              plugins |-> afterInit(ps, pluginName, found),
              init |-> IF found.init = "ok" THEN "completed" ELSE "failed",
              threw |-> thrownByInit # "none" /\ catchThrows(thrownByInit)]

\* lines 164-170
getPluginInfo(ps) ==
    [i \in 1..Len(ps) |->
        [name |-> ps[i].name, version |-> ps[i].version, description |-> ps[i].description]]

\* a server that listens as soon as the module is loaded
StartPhase_Listening == "serving"

\* server.js lines 468-470: start() first awaits loadPlugins; nothing
\* listens yet
StartPhase == "loading"

InitLoad ==
    /\ phase = StartPhase
    /\ hooks = NoHooks
    /\ regCount = 0
    /\ exec = IdleExec
    /\ calls = <<>>
    /\ fired = {}
    /\ IdleOps
    /\ userPath = <<>>
    /\ pathResult = NoResult
    /\ cleanedIn = <<>>
    /\ joinResult = NoResult
    /\ pluginsDir \in {[exists |-> FALSE, entries |-> <<>>]}
                      \cup {[exists |-> TRUE, entries |-> l] : l \in Listings}
    /\ pluginDirs = <<>>
    /\ loadIdx = 0
    /\ loadPc = "start"
    /\ plugins = <<>>
    /\ routes = <<>>
    /\ loadLog = <<>>
    /\ initLog = <<>>
    /\ IdleRest

\* lines 17-30: the directory is created when it is missing, else listed
\* and filtered
LoadPluginsBegin ==
    /\ loadPc = "start"
    /\ IF ~pluginsDir.exists
       THEN /\ pluginsDir' = [exists |-> TRUE, entries |-> <<>>]
            /\ loadPc' = "returned"
            /\ phase' = "installing"
            /\ UNCHANGED <<pluginDirs, loadIdx>>
       ELSE /\ pluginDirs' = SelectSeq(pluginsDir.entries, isCandidate)
            /\ loadIdx' = 1
            /\ loadPc' = "loading"
            /\ UNCHANGED <<pluginsDir, phase>>
    /\ UNCHANGED <<hooks, regCount, exec, calls, fired, plugins, routes, loadLog,
                   initLog, pathVars, joinVars, opVars, metaVars, concVars, startVars>>

\* lines 32-34 with 45-100: one iteration of the loop; an exception leaving
\* loadPlugin ends the loop in the catch block of lines 37-39, which logs
\* the TypeError's message and lets loadPlugins return
LoadPlugin ==
    /\ loadPc = "loading"
    /\ loadIdx <= Len(pluginDirs)
    /\ LET dir == pluginAt(pluginDirs, loadIdx)
           r == loadPlugin(hooks, routes, plugins, dir.name, dir.found, regCount + 1)
       IN  /\ loadLog' = Append(loadLog, dir.name)
           /\ initLog' = IF r.init = "none" THEN initLog
                         ELSE Append(initLog, [name |-> dir.name, outcome |-> r.init])
           /\ hooks' = r.hooks
           /\ regCount' = IF r.hooks = hooks THEN regCount ELSE regCount + 1
           /\ routes' = r.routes
           /\ plugins' = r.plugins
           /\ loadIdx' = IF r.threw THEN loadIdx ELSE loadIdx + 1
           /\ loadPc' = IF ~r.threw THEN "loading"
                        ELSE IF catchThrows("error") THEN "raised" ELSE "returned"
           /\ phase' = IF r.threw THEN "installing" ELSE phase
    /\ UNCHANGED <<pluginsDir, pluginDirs, exec, calls, fired, pathVars, joinVars, opVars,
                   metaVars, concVars, startVars>>

\* line 36: the loop is over
LoadPluginsReturn ==
    /\ loadPc = "loading"
    /\ loadIdx > Len(pluginDirs)
    /\ loadPc' = "returned"
    /\ phase' = "installing"
    /\ UNCHANGED <<pluginsDir, pluginDirs, loadIdx, plugins, routes, loadLog, initLog,
                   hooks, regCount, exec, calls, fired, pathVars, joinVars, opVars,
                   metaVars, concVars, startVars>>

\* a getRoutes that hands the list over and empties it
getRoutes_Drain(rs) == [result |-> rs, routes |-> <<>>]

\* lines 175-177: return this.routes; the list stays as it is
getRoutes(rs) == [result |-> rs, routes |-> rs]

\* server.js lines 472-480: every route of getRoutes() is put on the app;
\* the methods plugins use are methods of the app
InstallRoutes ==
    /\ phase = "installing"
    /\ installed' = installed \o getRoutes(routes).result
    /\ accessLog' = Append(accessLog, [fn |-> "getRoutes",
                                       result |-> getRoutes(routes).result])
    /\ routes' = getRoutes(routes).routes
    /\ phase' = "listening"
    /\ UNCHANGED <<pluginsDir, pluginDirs, loadIdx, loadPc, plugins, loadLog,
                   initLog, hooks, regCount, exec, calls, fired, pathVars, joinVars,
                   opVars, metaVars, concVars, uploadDir, served>>

\* server.js lines 482-486: app.listen; from here on requests arrive
Listen ==
    /\ phase = "listening"
    /\ phase' = "serving"
    /\ UNCHANGED <<hooks, regCount, exec, calls, fired, pathVars, joinVars, opVars,
                   loadVars, metaVars, concVars, startVars>>

\* a request once the server listens: an upload of file x into the root
ServeRequest ==
    /\ Idle
    /\ Handled("upload", <<>>, <<"x">>, handleUpload(files, dirs, hooks, <<>>, <<"x">>))

\* server.js lines 461-465: GET /api/plugins answers getPluginInfo()
CallGetPluginInfo ==
    /\ phase = "serving"
    /\ Len(accessLog) <= MaxAccessorCalls
    /\ accessLog' = Append(accessLog, [fn |-> "getPluginInfo",
                                       result |-> getPluginInfo(plugins)])
    /\ UNCHANGED <<installed, uploadDir, served, hookVars, pathVars, joinVars, opVars, loadVars,
                   metaVars, concVars>>

\* a further call of getRoutes()
CallGetRoutes ==
    /\ phase = "serving"
    /\ Len(accessLog) <= MaxAccessorCalls
    /\ accessLog' = Append(accessLog, [fn |-> "getRoutes",
                                       result |-> getRoutes(routes).result])
    /\ routes' = getRoutes(routes).routes
    /\ UNCHANGED <<installed, uploadDir, served, pluginsDir, pluginDirs, loadIdx, loadPc,
                   plugins, loadLog, initLog, hookVars, pathVars, joinVars, opVars, metaVars,
                   concVars>>

(***************************************************************************)
(* The route table: addRoute calls made by the init functions while the    *)
(* plugins load, start() installing them on the app behind the routes of   *)
(* server.js, and the app dispatching a request to the first route of its  *)
(* stack with the method and the path of the request.                      *)
(***************************************************************************)
RouteOwners == {<<"a">>, <<"b">>}

RouteMethods == {"GET", "POST"}

\* a path no route of server.js has, and the path of line 461
RoutePaths == {"/api/ext", "/api/plugins"}

\* server.js lines 98, 162, 461: routes put on the app when the module loads
CoreRoutes ==
    <<[owner |-> "core", method |-> "GET", path |-> "/api/files", call |-> 0],
      [owner |-> "core", method |-> "POST", path |-> "/api/upload", call |-> 0],
      [owner |-> "core", method |-> "GET", path |-> "/api/plugins", call |-> 0]>>

\* an app whose plugin routes come before its own
appStack_PluginsFirst(core, added) == added \o core

\* lines 98-465 run before start() (line 489): app.get, app.post, ... append
\* to the router's stack
appStack(core, added) == core \o added

\* the router: the first layer of the stack that matches handles the request
dispatch(stack, method, path) ==
    LET matching == SelectSeq(stack, LAMBDA r : r.method = method /\ r.path = path)
    IN  IF matching = <<>>
        THEN [owner |-> "none", method |-> method, path |-> path, call |-> 0]
        ELSE Head(matching)

InitRoutes ==
    /\ phase = "loading"
    /\ hooks = NoHooks
    /\ regCount = 0
    /\ exec = IdleExec
    /\ calls = <<>>
    /\ fired = {}
    /\ IdleOps
    /\ IdleLoad
    /\ IdleRest
    /\ userPath = <<>>
    /\ pathResult = NoResult
    /\ cleanedIn = <<>>
    /\ joinResult = NoResult

\* an init function calls context.addRoute (PluginManager.js line 81); call
\* numbers the calls of addRoute
AddRoute(owner, method, path) ==
    /\ phase = "loading"
    /\ Len(routes) < MaxRoutes
    /\ routes' = addRoute(routes, [owner |-> owner, method |-> method, path |-> path,
                                   call |-> Len(routes) + 1])
    /\ UNCHANGED <<phase, pluginsDir, pluginDirs, loadIdx, loadPc, plugins, loadLog,
                   initLog, hooks, regCount, exec, calls, fired, pathVars, joinVars,
                   opVars, metaVars, concVars, startVars>>

\* server.js line 469: await pluginManager.loadPlugins() has returned
RoutesLoaded ==
    /\ phase = "loading"
    /\ phase' = "installing"
    /\ UNCHANGED <<hooks, regCount, exec, calls, fired, pathVars, joinVars, opVars,
                   loadVars, metaVars, concVars, startVars>>

\* a request for a method and a path
Dispatch(method, path) ==
    /\ phase = "serving"
    /\ served = NotServed
    /\ served' = dispatch(appStack(CoreRoutes, installed), method, path)
    /\ UNCHANGED <<installed, accessLog, uploadDir, hookVars, pathVars, joinVars, opVars,
                   loadVars, metaVars, concVars>>

NextLoad ==
    \/ LoadPluginsBegin
    \/ LoadPlugin
    \/ LoadPluginsReturn
    \/ InstallRoutes
    \/ Listen
    \/ ServeRequest
    \/ CallGetPluginInfo
    \/ CallGetRoutes

NextRoutes ==
    \/ \E o \in RouteOwners, m \in RouteMethods, p \in RoutePaths : AddRoute(o, m, p)
    \/ RoutesLoaded
    \/ InstallRoutes
    \/ Listen
    \/ \E m \in RouteMethods, p \in RoutePaths \cup {"/api/files"} : Dispatch(m, p)

SpecRoutes == InitRoutes /\ [][NextRoutes]_vars

SpecLoad == InitLoad /\ [][NextLoad]_vars

(***************************************************************************)
(* getFolderMetadata (server.js lines 70-93).  A folder is the sequence of *)
(* its children as fs.readdir lists them; a child has the size fs.stat     *)
(* reports, and a subdirectory also has its own listing, which fs.readdir  *)
(* may fail to read (EACCES).                                              *)
(***************************************************************************)
FileSizes == {10, 20, 30}

\* stats.size of a directory
DirSize == 4096

File(size) == [isDir |-> FALSE, size |-> size, readable |-> TRUE, items |-> <<>>]

Dir(readable, items) ==
    [isDir |-> TRUE, size |-> DirSize, readable |-> readable, items |-> items]

SeqsUpTo(S, n) == UNION {[1..k -> S] : k \in 0..n}

\* what a subdirectory can hold: files and directories
SubListings == SeqsUpTo({File(10), Dir(TRUE, <<>>)}, MaxSubItems)

Children ==
    {File(size) : size \in FileSizes}
    \cup {Dir(TRUE, items) : items \in SubListings}
    \cup {Dir(FALSE, <<File(10)>>)}

Folders == SeqsUpTo(Children, MaxChildren)

\* lines 82-86: the stat sizes of the entries of a listing
RECURSIVE sumSizes(_)
sumSizes(items) ==
    IF items = <<>> THEN 0 ELSE Head(items).size + sumSizes(Tail(items))

\* a summary that also counts what the subdirectory itself occupies
dirContribution_WithOwnSize(item) == item.size + sumSizes(item.items)

\* lines 80-87: what a subdirectory adds to totalSize
dirContribution(item) == sumSizes(item.items)

\* lines 75-90: the loop over the children; reading an unreadable
\* subdirectory (line 82) throws, and nothing in the function catches it
RECURSIVE summarize(_, _, _)
summarize(items, itemCount, totalSize) ==
    IF items = <<>>
    THEN [kind |-> "ok", itemCount |-> itemCount, totalSize |-> totalSize]
    ELSE LET item == Head(items)
         IN  IF item.isDir /\ ~item.readable
             THEN [kind |-> "error", itemCount |-> 0, totalSize |-> 0]
             ELSE summarize(Tail(items), itemCount + 1,
                            totalSize + (IF item.isDir THEN dirContribution(item)
                                                       ELSE item.size))

\* lines 70-93
getFolderMetadata(items) == summarize(items, 0, 0)

InitMeta ==
    /\ phase = "serving"
    /\ hooks = NoHooks
    /\ regCount = 0
    /\ exec = IdleExec
    /\ calls = <<>>
    /\ fired = {}
    /\ IdleOps
    /\ IdleLoad
    /\ userPath = <<>>
    /\ pathResult = NoResult
    /\ cleanedIn = <<>>
    /\ joinResult = NoResult
    /\ folder \in Folders
    /\ metaResult = NoMeta
    /\ listing = NoListing
    /\ execs = [c \in Operations |-> IdleExec]
    /\ callLogs = [c \in Operations |-> <<>>]
    /\ deletes = [c \in Operations |-> IdleDelete]
    /\ installed = <<>>
    /\ accessLog = <<>>
    /\ uploadDir = UPLOAD_DIR
    /\ served = NotServed

GetFolderMetadata ==
    /\ metaResult.kind = "none"
    /\ metaResult' = getFolderMetadata(folder)
    /\ UNCHANGED <<folder, listing, hookVars, pathVars, joinVars, opVars, loadVars,
                   concVars, startVars>>

NextMeta == GetFolderMetadata

SpecMeta == InitMeta /\ [][NextMeta]_vars

(***************************************************************************)
(* GET /api/files on a directory that exists (server.js lines 109-150):    *)
(* the entries with their folder metadata, then the transformFileList      *)
(* chain.  The payload <<0>> is the one the handler builds, with files =   *)
(* itemDetails; a callback of kind "value" returns a payload with a        *)
(* files array of its own, one of kind "noFiles" an object without files,  *)
(* one of kind "null" the value null.                                      *)
(***************************************************************************)
ListChildren ==
    {File(10), File(20), Dir(TRUE, <<File(10), Dir(TRUE, <<>>)>>),
     Dir(FALSE, <<File(10)>>), Dir(TRUE, <<Dir(FALSE, <<File(10)>>)>>)}

ListFolders == SeqsUpTo(ListChildren, MaxChildren)

ListKinds == (CallbackKinds \ {"register"}) \cup {"noFiles", "null"}

\* getFolderMetadata(itemPath) of a directory entry: line 71 reads the
\* entry, the loop reads its subdirectories
folderMetadataOf(item) ==
    IF ~item.readable THEN [kind |-> "error", itemCount |-> 0, totalSize |-> 0]
    ELSE getFolderMetadata(item.items)

\* an entry that is left without itemCount when its metadata fails
metadataFallback_NoCount(baseInfo) == baseInfo

\* lines 131-134: the catch block sets itemCount to 0 and keeps stats.size
metadataFallback(baseInfo) == [baseInfo EXCEPT !.itemCount = 0]

\* lines 111-138: one entry of the answer; itemCount -1 stands for an
\* entry without the field
itemDetail(item) ==
    LET baseInfo == [isDirectory |-> item.isDir, size |-> item.size, itemCount |-> -1]
        metadata == folderMetadataOf(item)
    IN  IF ~item.isDir THEN baseInfo
        ELSE IF metadata.kind = "ok"
        THEN [baseInfo EXCEPT !.itemCount = metadata.itemCount,
                              !.size = metadata.totalSize]
        ELSE metadataFallback(baseInfo)

\* lines 110-141
itemDetails(items) == [i \in 1..Len(items) |-> itemDetail(items[i])]

\* the payload is an object with a files array
hasFiles(payload) == payload # <<>> /\ payload[1] = 0

\* lines 143-158: the chain and the answer; reading .files of null throws
\* a TypeError that the catch block of line 151 answers with 500
listFiles(items, hs) ==
    LET details == itemDetails(items)
        hookResult == executeHook(hs, "transformFileList", OpPayload)
    IN  IF hookResult.threw \/ hookResult.value = NullPayload
        THEN [status |-> 500, body |-> <<>>, transformedBy |-> <<>>]
        ELSE IF hasFiles(hookResult.value)
        THEN [status |-> 200, body |-> details, transformedBy |-> Tail(hookResult.value)]
        ELSE [status |-> 200, body |-> details, transformedBy |-> <<>>]

InitList ==
    /\ phase = "serving"
    /\ \E k \in ListKinds \cup {"none"} :
          /\ hooks = IF k = "none" THEN NoHooks ELSE HooksOfKind(k)
          /\ regCount = IF k = "none" THEN 0 ELSE Len(HookOrder)
    /\ exec = IdleExec
    /\ calls = <<>>
    /\ fired = {}
    /\ IdleOps
    /\ IdleLoad
    /\ userPath = <<>>
    /\ pathResult = NoResult
    /\ cleanedIn = <<>>
    /\ joinResult = NoResult
    /\ folder \in ListFolders
    /\ metaResult = NoMeta
    /\ listing = NoListing
    /\ execs = [c \in Operations |-> IdleExec]
    /\ callLogs = [c \in Operations |-> <<>>]
    /\ deletes = [c \in Operations |-> IdleDelete]
    /\ installed = <<>>
    /\ accessLog = <<>>
    /\ uploadDir = UPLOAD_DIR
    /\ served = NotServed

ListDirectory ==
    /\ listing.status = -1
    /\ listing' = listFiles(folder, hooks)
    /\ UNCHANGED <<folder, metaResult, hookVars, pathVars, joinVars, opVars, loadVars,
                   concVars, startVars>>

NextList == ListDirectory

SpecList == InitList /\ [][NextList]_vars

(***************************************************************************)
(* Two operations in flight, each awaiting executeHook for the same hook   *)
(* name (PluginManager.js lines 136-159).  Node runs one callback at a     *)
(* time; the calls interleave at their awaits.  Besides the callbacks of   *)
(* CallbackKinds there are callbacks that do not complete for one payload: *)
(*   "hang"  returns a promise that never settles                          *)
(*   "spin"  never returns (a synchronous loop)                            *)
(***************************************************************************)
ConcHook == "beforeDelete"

ConcKinds == CallbackKinds \cup {"hang", "spin"}

\* the payload a "hang" or "spin" callback does not complete for
StallPayload == <<0>>

stalls(callback, arg) == callback.kind \in {"hang", "spin"} /\ arg = StallPayload

\* an executor in which a pending promise holds up the event loop as well
blocksEventLoop_Pending(kind) == kind \in {"hang", "spin"}

\* a callback that does not return keeps Node's single thread; a pending
\* promise does not
blocksEventLoop(kind) == kind = "spin"

\* a payload variable shared by the calls
resultOf_Shared(xs, c) == xs["opA"].result

\* line 143: let result = data, a local of the call
resultOf(xs, c) == xs[c].result

\* the chains registered at startup: callbacks 1..n of any kinds
ConcChains ==
    UNION {{[i \in 1..n |-> [id |-> i, kind |-> ks[i]]] : ks \in [1..n -> ConcKinds]} :
              n \in 0..MaxCallbacks}

InitConc ==
    /\ phase = "serving"
    /\ \E chain \in ConcChains :
          /\ hooks = [h \in {ConcHook} |-> chain]
          /\ regCount = Len(chain)
    /\ exec = IdleExec
    /\ calls = <<>>
    /\ fired = {}
    /\ IdleOps
    /\ IdleLoad
    /\ IdleRest
    /\ userPath = <<>>
    /\ pathResult = NoResult
    /\ cleanedIn = <<>>
    /\ joinResult = NoResult

EventLoopBlocked == \E c \in Operations : execs[c].status = "spinning"

\* lines 136-143: operation c calls executeHook
ConcCall(c, data) ==
    /\ ~EventLoopBlocked
    /\ execs[c].status = "idle"
    /\ execs' = [execs EXCEPT ![c] =
                    IF Len(callbacksOf(hooks, ConcHook)) = 0
                    THEN [status |-> "returned", hook |-> ConcHook, data |-> data,
                          idx |-> 0, result |-> data, returnValue |-> earlyReturn(data)]
                    ELSE [status |-> "running", hook |-> ConcHook, data |-> data,
                          idx |-> 1, result |-> data, returnValue |-> <<>>]]
    /\ UNCHANGED <<callLogs, deletes, hookVars, pathVars, joinVars, opVars, loadVars, metaVars,
                   startVars>>

\* lines 145-156: one iteration of the loop of operation c
ConcIterate(c) ==
    /\ ~EventLoopBlocked
    /\ execs[c].status = "running"
    /\ execs[c].idx <= Len(callbacksOf(hooks, ConcHook))
    /\ LET callback == callbacksOf(hooks, ConcHook)[execs[c].idx]
           arg == resultOf(execs, c)
           step == hookStep(callback, arg)
       IN  /\ callLogs' = [callLogs EXCEPT ![c] = Append(@, [id |-> callback.id, arg |-> arg])]
           /\ IF stalls(callback, arg)
              THEN /\ execs' = [execs EXCEPT ![c].status =
                                   IF blocksEventLoop(callback.kind)
                                   THEN "spinning" ELSE "awaiting"]
                   /\ UNCHANGED <<hooks, regCount, fired>>
              ELSE /\ execs' = [execs EXCEPT ![c] =
                                   IF step.propagated
                                   THEN [@ EXCEPT !.status = "threw"]
                                   ELSE [@ EXCEPT !.result = step.result, !.idx = @ + 1]]
                   /\ hooks' = hooksAfter(hooks, ConcHook, callback, fired, regCount + 1)
                   /\ regCount' = IF hooks' = hooks THEN regCount ELSE regCount + 1
                   /\ fired' = IF callback.kind = "register"
                               THEN fired \cup {callback.id} ELSE fired
    /\ UNCHANGED <<phase, exec, calls, deletes, pathVars, joinVars, opVars, loadVars,
                   metaVars, startVars>>

\* line 158
ConcReturn(c) ==
    /\ ~EventLoopBlocked
    /\ execs[c].status = "running"
    /\ execs[c].idx > Len(callbacksOf(hooks, ConcHook))
    /\ execs' = [execs EXCEPT ![c] =
                    [@ EXCEPT !.status = "returned", !.returnValue = resultOf(execs, c)]]
    /\ UNCHANGED <<callLogs, deletes, hookVars, pathVars, joinVars, opVars, loadVars, metaVars,
                   startVars>>

NextConc ==
    \/ \E c \in Operations, d \in Payloads : ConcCall(c, d)
    \/ \E c \in Operations : ConcIterate(c)
    \/ \E c \in Operations : ConcReturn(c)

SpecConc == InitConc /\ [][NextConc]_vars

\* the event loop runs every continuation that is ready
FairConc ==
    \A c \in Operations : WF_vars(ConcIterate(c)) /\ WF_vars(ConcReturn(c))

SpecConcFair == SpecConc /\ FairConc

(***************************************************************************)
(* Two delete-file requests in flight (server.js lines 422-458).  Each     *)
(* await of the handler is a point where the other request may run; the    *)
(* disk is shared, the locals of the handler are not.                      *)
(***************************************************************************)
\* req.params.filename: a file, another name of it, another file, a
\* directory, a name nothing has
RaceNames ==
    {<<"x">>, <<".", "/", "x">>, <<"data", "/", "x">>, <<"data">>, <<"x", "x">>}

\* an unlink that succeeds whether or not the file is there
unlinkSucceeds_Force(f, p) == TRUE

\* line 445: fs.unlink rejects with ENOENT for a missing file, and for a
\* directory
unlinkSucceeds(f, p) == isFile(f, p)

InitRace ==
    /\ phase = "serving"
    /\ \E k \in (CallbackKinds \ {"register"}) \cup {"none"} :
          /\ hooks = IF k = "none" THEN NoHooks ELSE HooksOfKind(k)
          /\ regCount = IF k = "none" THEN 0 ELSE Len(HookOrder)
    /\ exec = IdleExec
    /\ calls = <<>>
    /\ fired = {}
    /\ IdleOps
    /\ IdleLoad
    /\ IdleRest
    /\ userPath = <<>>
    /\ pathResult = NoResult
    /\ cleanedIn = <<>>
    /\ joinResult = NoResult

RaceFrame ==
    <<execs, callLogs, hookVars, pathVars, joinVars, loadVars, metaVars, startVars, dirs,
      request, response, ran, pc, uploaded>>

\* lines 424-432: fs.access of the joined path
RaceAccess(c) ==
    /\ deletes[c].pc = "idle"
    /\ \E filename \in RaceNames :
          LET found == existsPath(files, dirs, pathJoin(UPLOAD_DIR, filename))
          IN  deletes' = [deletes EXCEPT ![c] =
                             [pc |-> IF found THEN "found" ELSE "done", name |-> filename,
                              response |-> IF found THEN -1 ELSE 404, ran |-> <<>>]]
    /\ UNCHANGED <<files, touched, RaceFrame>>

\* lines 434-443: the beforeDelete chain
RaceBeforeHook(c) ==
    /\ deletes[c].pc = "found"
    /\ LET before == executeHook(hooks, "beforeDelete", OpPayload)
       IN  deletes' = [deletes EXCEPT ![c] =
                          [@ EXCEPT !.ran = Append(@, "beforeDelete"),
                                    !.response = IF before.threw THEN 403 ELSE @,
                                    !.pc = IF before.threw THEN "done" ELSE "allowed"]]
    /\ UNCHANGED <<files, touched, RaceFrame>>

\* line 445: fs.unlink; a rejection goes to the catch block of lines 454-457
RaceUnlink(c) ==
    /\ deletes[c].pc = "allowed"
    /\ LET filePath == pathJoin(UPLOAD_DIR, deletes[c].name)
           ok == unlinkSucceeds(files, filePath)
       IN  /\ files' = IF ok THEN files \ {filePath} ELSE files
           /\ touched' = IF ok THEN touched \cup {Touch("remove", filePath)} ELSE touched
           /\ deletes' = [deletes EXCEPT ![c] =
                              [@ EXCEPT !.response = IF ok THEN @ ELSE 500,
                                        !.pc = IF ok THEN "unlinked" ELSE "done"]]
    /\ UNCHANGED RaceFrame

\* lines 447-453: the afterDelete chain and the answer
RaceAfterHook(c) ==
    /\ deletes[c].pc = "unlinked"
    /\ LET after == executeHook(hooks, "afterDelete", OpPayload)
       IN  deletes' = [deletes EXCEPT ![c] =
                          [@ EXCEPT !.ran = Append(@, "afterDelete"),
                                    !.response = IF after.threw THEN 500 ELSE 200,
                                    !.pc = "done"]]
    /\ UNCHANGED <<files, touched, RaceFrame>>

NextRace ==
    \/ \E c \in Operations : RaceAccess(c)
    \/ \E c \in Operations : RaceBeforeHook(c)
    \/ \E c \in Operations : RaceUnlink(c)
    \/ \E c \in Operations : RaceAfterHook(c)

SpecRace == InitRace /\ [][NextRace]_vars

(***************************************************************************)
(* Properties of validatePath (SpecPath) and of lines 58-66 (SpecJoin)     *)
(***************************************************************************)
PathDone == pathResult.kind # "none"

\* the segments of s that name something: "." pieces are dropped
NameSegments(s) == SelectSeq(Segments(s), LAMBDA seg : seg # <<".">>)

\* the root followed by the given segments
RootPlus(segs) ==
    IF segs = <<>> THEN UPLOAD_DIR
    ELSE UPLOAD_DIR \o <<"/">> \o joinSegments(segs)

\* C1: whenever validatePath returns a path, that path is the storage root
\* or a descendant of it: the root's segments are a prefix of its segments.
C1_ResultInsideRoot == pathResult.kind = "ok" => InsideRoot(pathResult.path)

C1_Witness ==
    /\ pathResult.kind = "ok"
    /\ Len(Segments(pathResult.path)) > Len(Segments(UPLOAD_DIR)) + 1
    /\ includes(userPath, <<"data", "x">>)

\* C2: every input with a ".." segment anywhere makes validatePath fail
\* with the invalid-path error, and no path is returned.
C2_DotDotRejected ==
    (PathDone /\ HasDotDotSegment(userPath)) => pathResult = Err("Invalid path")

C2_Witness ==
    /\ pathResult = Err("Invalid path")
    /\ HasDotDotSegment(userPath)
    /\ ~startsWith(stripSlashes(userPath), <<".", ".">>)

\* C3 as stated: every absolute input other than "/" makes validatePath
\* fail with the invalid-path error.
C3_Original ==
    (PathDone /\ isAbsolute(userPath) /\ userPath # <<"/">>)
        => pathResult = Err("Invalid path")

\* C3 amended: an input with an absolute-path prefix other than "/" is never
\* resolved as the absolute path it names; its leading separators are
\* stripped and the rest is resolved below the storage root, failing with
\* the invalid-path error exactly when the input contains "..".
C3_AbsoluteTreatedAsRelative ==
    (PathDone /\ isAbsolute(userPath) /\ userPath # <<"/">>)
        => IF includes(userPath, <<".", ".">>)
           THEN pathResult = Err("Invalid path")
           ELSE pathResult = Ok(RootPlus(NameSegments(userPath)))

C3_Witness ==
    /\ userPath = <<"/", "x", "/", "x">>
    /\ pathResult = Ok(<<"/", "data", "/", "x", "/", "x">>)

C6_Original ==
    LET cleaned == stripSlashes(userPath)
    IN  (PathDone /\ cleaned # <<>> /\ ~isAbsolute(cleaned) /\ ~HasDotDotSegment(cleaned))
            => pathResult = Ok(RootPlus(NameSegments(cleaned)))

\* C7: the empty input and the single segment "/" both resolve to exactly
\* the storage root.
C7_RootInputs ==
    (PathDone /\ userPath \in {<<>>, <<"/">>}) => pathResult = Ok(UPLOAD_DIR)

C7_Witness == userPath = <<"/">> /\ pathResult = Ok(UPLOAD_DIR)

(***************************************************************************)
(* Properties of the hook chain (SpecHook)                                 *)
(***************************************************************************)
Chain == callbacksOf(hooks, exec.hook)

ExecEnded == exec.status \in {"returned", "threw"}

\* the payload after the first n callbacks of cbs, starting from data:
\* only a callback that returns a value changes it
RECURSIVE PayloadAfter(_, _, _)
PayloadAfter(cbs, n, data) ==
    IF n = 0 THEN data
    ELSE LET before == PayloadAfter(cbs, n - 1, data)
         IN  IF cbs[n].kind = "value" THEN Append(before, cbs[n].id) ELSE before

\* C8: executeHook invokes the callbacks of the hook name in the order they
\* were registered, one at a time, each receiving the payload as left by
\* the callbacks before it.
C8_RegistrationOrder ==
    exec.status # "idle" =>
        /\ Len(calls) <= Len(Chain)
        /\ \A k \in 1..Len(calls) :
              /\ calls[k].id = Chain[k].id
              /\ calls[k].arg = PayloadAfter(Chain, k - 1, exec.data)
        /\ \A j, k \in 1..Len(calls) : j < k => calls[j].id < calls[k].id
        /\ exec.status = "returned" => Len(calls) = Len(Chain)

C8_Witness ==
    /\ exec.status = "returned"
    /\ Len(calls) = 3
    /\ calls[3].arg = <<0, calls[1].id, calls[2].id>>

Failing(callback) == callback.kind \in {"throw", "throwNull"}

\* C9: when a callback fails, every later callback is still invoked, the
\* next one receives the payload the failed one was given (the result of
\* the last successful callback), and the failed step leaves the payload
\* unchanged.
C9_Original ==
    /\ \A k \in 1..Len(calls) :
          Failing(Chain[k]) =>
              /\ k < Len(calls) => calls[k + 1].arg = calls[k].arg
              /\ (k = Len(calls) /\ exec.status # "threw") => exec.result = calls[k].arg
    /\ ExecEnded => Len(calls) = Len(Chain)

\* C10: executeHook never propagates a callback's failure: whatever
\* callbacks fail, the call ends by returning a payload.
C10_Original ==
    /\ exec.status # "threw"
    /\ exec.status = "returned" =>
          exec.returnValue = PayloadAfter(Chain, Len(Chain), exec.data)

\* C13: when no callback is registered for the hook name, executeHook
\* invokes nothing and returns the payload it was given, unchanged.
C13_NoCallbackIdentity ==
    (exec.status = "returned" /\ Len(Chain) = 0) =>
        /\ calls = <<>>
        /\ exec.returnValue = exec.data

C13_Witness ==
    /\ exec.status = "returned"
    /\ Len(Chain) = 0
    /\ regCount = MaxCallbacks
    /\ exec.returnValue = <<0, 0>>

\* the payload as call k left it: what the next call received, or the
\* current payload when call k is the latest one
After(k) == IF k < Len(calls) THEN calls[k + 1].arg ELSE exec.result

ReturnsUndefined(callback) == callback.kind \in {"void", "register"}

\* C14: a callback that returns undefined leaves the payload unchanged, a
\* callback that returns a value makes that value the payload, and the
\* value executeHook returns is the payload after the last callback.
C14_UndefinedKeepsValueReplaces ==
    /\ \A k \in 1..Len(calls) :
          /\ ReturnsUndefined(Chain[k]) => After(k) = calls[k].arg
          /\ Chain[k].kind = "value" =>
                After(k) = invokeCallback(Chain[k], calls[k].arg).value
    /\ (exec.status = "returned" /\ Len(calls) > 0) =>
          exec.returnValue = After(Len(calls))

C14_Witness ==
    /\ exec.status = "returned"
    /\ Len(calls) = 3
    /\ Chain[1].kind = "value"
    /\ Chain[2].kind = "void"
    /\ Chain[3].kind = "value"
    /\ exec.returnValue = <<0, 1, 3>>

IsPrefixOf(s, t) == Len(s) <= Len(t) /\ SubSeq(t, 1, Len(s)) = s

\* C20 as stated: once startup has completed, the registration structure
\* is read-only: no step adds, removes or reorders a callback.
C20_Original ==
    [][phase = "serving" => hooks' = hooks]_vars

\* C20, amended: once startup has completed, no step removes or reorders
\* the callbacks of a hook name, and a callback is added only in the step
\* in which executeHook invokes a callback that calls registerHook; the
\* addition goes to the end of the chain.
C20_AppendOnlyByCallbacks ==
    [][phase = "serving" =>
          /\ \A h \in HookNames :
                IsPrefixOf(callbacksOf(hooks, h), callbacksOf(hooks', h))
          /\ hooks' # hooks =>
                /\ Len(calls') = Len(calls) + 1
                /\ Chain[Len(calls')].kind = "register"]_vars

C20_Witness ==
    /\ phase = "serving"
    /\ exec.status = "returned"
    /\ fired # {}
    /\ Len(Chain) = MaxCallbacks + 1
    /\ Len(calls) = Len(Chain)

\* the callbacks the hook name had when the call started: every callback
\* that called registerHook during the call added one at the end
ChainAtCall == SubSeq(Chain, 1, Len(Chain) - Cardinality(fired))

\* C32: a call of executeHook that returns has invoked exactly the
\* callbacks registered for the hook name when the call started, each once,
\* even if a callback registered a further one while the chain was running.
C32_Original ==
    exec.status = "returned" =>
        /\ Len(calls) = Len(ChainAtCall)
        /\ \A k \in 1..Len(calls) : calls[k].id = ChainAtCall[k].id

(***************************************************************************)
(* Properties of the file operations (SpecOps)                             *)
(***************************************************************************)
\* C4: every file operation reads, writes or removes only the storage root
\* or descendants of it, whatever path or filename the request supplies.
C4_Original == \A t \in touched : InsideRoot(t.path)

\* the chain of hookName ran for the request and one of its callbacks failed
BeforeHookFailed(hookName) ==
    /\ \E i \in 1..Len(ran) : ran[i] = hookName
    /\ \E k \in 1..Len(callbacksOf(hooks, hookName)) :
          Failing(callbacksOf(hooks, hookName)[k])

\* C11: a before-hook callback that throws rejects the operation: an upload
\* is answered 400 and its file is removed, a download is answered 403 and
\* nothing is sent, a delete is answered 403 and the file stays.
C11_Original ==
    /\ (request.op = "upload" /\ BeforeHookFailed("beforeUpload")) =>
          (response = 400 /\ files = InitialFiles)
    /\ (request.op = "download" /\ BeforeHookFailed("beforeDownload")) =>
          (response = 403 /\ touched = {})
    /\ (request.op = "deleteFile" /\ BeforeHookFailed("beforeDelete")) =>
          (response = 403 /\ files = InitialFiles)

\* C12: while the beforeUpload chain of an upload has not completed, no
\* file of that upload exists in the destination directory.
C12_Original == pc = "stored" => uploaded \cap files = {}

\* C29: no folder operation targets the storage root itself or leaves it:
\* delete-folder never removes the root directory, rename-folder never
\* renames it, and whatever either removes or creates lies strictly below
\* the root, an empty path and the path "/" included.
C29_Original ==
    request.op \in {"deleteFolder", "renameFolder"} =>
        /\ UPLOAD_DIR \in dirs
        /\ \A t \in touched : t.path # UPLOAD_DIR /\ InsideRoot(t.path)

(***************************************************************************)
(* Properties of the plugin loader (SpecLoad)                              *)
(***************************************************************************)
\* the entries loadPlugins kept as candidates, and those loadPlugin was
\* called for
ListedEntries == {pluginsDir.entries[i] : i \in 1..Len(pluginsDir.entries)}

Range(seq) == {seq[i] : i \in 1..Len(seq)}

Attempted == {e \in ListedEntries : e.name \in Range(loadLog)}

InitInvoked == {initLog[i].name : i \in 1..Len(initLog)}

InitCompleted == {initLog[i].name : i \in {k \in 1..Len(initLog) : initLog[k].outcome = "completed"}}

InfoKeys == {plugins[i].key : i \in 1..Len(plugins)}

HookOwners == {callbacksOf(hooks, PluginHook)[i].owner : i \in 1..Len(callbacksOf(hooks, PluginHook))}

\* nothing is wrong with the plugin: it has index.js, a usable
\* configuration that does not disable it, a module that loads and an init
\* that returns
WellFormed(found) ==
    /\ found.hasIndex
    /\ found.config \in {"absent", "noEnabled"}
    /\ found.module = "ok"
    /\ found.init = "ok"

\* C15: a failure while loading one plugin never prevents the plugins
\* enumerated after it from being loaded, and loadPlugins never raises.
C15_Original ==
    /\ loadPc # "raised"
    /\ (loadPc = "returned") =>
          \A i \in 1..Len(pluginDirs) :
              /\ pluginDirs[i].name \in Range(loadLog)
              /\ WellFormed(pluginDirs[i].found) => pluginDirs[i].name \in InfoKeys

\* C16: after loadPlugins, getPluginInfo() has exactly one entry
\* {name, version, description} for each plugin whose init completed and no
\* entry for any other plugin.
C16_InfoIsCompletedInits ==
    loadPc = "returned" =>
        /\ Len(getPluginInfo(plugins)) = Cardinality(InitCompleted)
        /\ InfoKeys = InitCompleted
        /\ \A i \in 1..Len(plugins) :
              \E e \in ListedEntries :
                  /\ e.name = plugins[i].key
                  /\ getPluginInfo(plugins)[i] =
                        [name |-> IF e.found.named THEN DeclaredName ELSE e.name,
                         version |-> IF e.found.named THEN "2.1.0" ELSE "1.0.0",
                         description |-> IF e.found.named THEN "about" ELSE ""]
        /\ \A e \in ListedEntries :
              (\/ ~e.found.hasIndex
               \/ e.found.config = "enabledFalse"
               \/ e.found.module = "noInit"
               \/ e.found.init # "ok") => e.name \notin InfoKeys

C16_Witness ==
    /\ loadPc = "returned"
    /\ Len(loadLog) = 2
    /\ Len(getPluginInfo(plugins)) = 1
    /\ \E e \in Attempted : ~e.found.hasIndex

\* C17: a plugin whose configuration has enabled false is skipped entirely:
\* init is not invoked, it has no hook callback, no route and no entry in
\* getPluginInfo(); a plugin without configuration, or whose configuration
\* has no enabled field, gets its init invoked and, when init returns, its
\* entry.
C17_DisabledSkippedOthersLoaded ==
    \A e \in Attempted :
        /\ e.found.config = "enabledFalse" =>
              /\ e.name \notin InitInvoked
              /\ e.name \notin HookOwners
              /\ e.name \notin Range(routes)
              /\ e.name \notin InfoKeys
        /\ (e.found.config \in {"absent", "noEnabled"}
              /\ e.found.hasIndex /\ e.found.module = "ok") =>
              /\ e.name \in InitInvoked
              /\ e.found.init = "ok" => e.name \in InfoKeys

C17_Witness ==
    /\ loadPc = "returned"
    /\ \E e \in Attempted : e.found.config = "enabledFalse"
    /\ \E e \in Attempted : e.found.config = "noEnabled" /\ e.name \in InfoKeys

\* byte order of the characters of a name
CharRank(c) ==
    CASE c = "." -> 1
      [] c = "_" -> 2
      [] c = "a" -> 3
      [] c = "b" -> 4

RECURSIVE LexLess(_, _)
LexLess(s, t) ==
    IF s = <<>> THEN t # <<>>
    ELSE IF t = <<>> THEN FALSE
    ELSE IF s[1] # t[1] THEN CharRank(s[1]) < CharRank(t[1])
    ELSE LexLess(Tail(s), Tail(t))

\* where fs.readdir listed the name
PosOf(name) == CHOOSE i \in 1..Len(pluginsDir.entries) : pluginsDir.entries[i].name = name

PluginChain == callbacksOf(hooks, PluginHook)

C19_CandidatesExactly ==
    LET eligible == {e \in ListedEntries :
                        e.found.isDir /\ e.name[1] \notin {"_", "."}}
    IN  /\ loadPc \in {"loading", "returned"} =>
              /\ Range(pluginDirs) = eligible
              /\ Len(pluginDirs) = Cardinality(eligible)
        /\ Attempted \subseteq eligible

C19_Witness ==
    /\ loadPc = "returned"
    /\ Len(pluginsDir.entries) = 2
    /\ \E e \in ListedEntries : e.found.isDir /\ e.name = <<".", "a">>
    /\ Len(loadLog) = 1

(***************************************************************************)
(* Properties of concurrent hook executions (SpecConc, SpecConcFair)       *)
(***************************************************************************)
ConcChain == callbacksOf(hooks, ConcHook)

Started(c) == execs[c].status # "idle"

\* C21: concurrent executeHook calls for the same hook name are
\* independent: each call invokes the chain in registration order, every
\* callback receives the call's own payload as left by the callbacks
\* before it, the call returns the payload after the whole chain, and two
\* calls given equal payloads return equal payloads however they interleave.
C21_IndependentCalls ==
    /\ \A c \in Operations :
          Started(c) =>
              /\ Len(callLogs[c]) <= Len(ConcChain)
              /\ \A k \in 1..Len(callLogs[c]) :
                    /\ callLogs[c][k].id = ConcChain[k].id
                    /\ callLogs[c][k].arg = PayloadAfter(ConcChain, k - 1, execs[c].data)
              /\ execs[c].status = "returned" =>
                    /\ Len(callLogs[c]) = Len(ConcChain)
                    /\ execs[c].returnValue =
                          PayloadAfter(ConcChain, Len(ConcChain), execs[c].data)
    /\ \A c, d \in Operations :
          (/\ execs[c].status = "returned"
           /\ execs[d].status = "returned"
           /\ execs[c].data = execs[d].data) => execs[c].returnValue = execs[d].returnValue

C21_Witness ==
    /\ execs["opA"].status = "running"
    /\ execs["opB"].status = "running"
    /\ execs["opA"].idx = 3
    /\ execs["opB"].idx = 2
    /\ execs["opA"].data # execs["opB"].data
    /\ execs["opA"].result = <<0, 1, 2>>
    /\ execs["opB"].result = <<0, 0, 1>>

Ended(c) == execs[c].status \in {"returned", "threw"}

\* the call of operation c invoked a callback that does not complete
StalledByOwnCallback(c) == execs[c].status \in {"awaiting", "spinning"}

\* ... and that callback is one that never returns
HeldInSpin(c) ==
    /\ StalledByOwnCallback(c)
    /\ ConcChain[execs[c].idx].kind = "spin"

\* C22 as stated: a callback that never completes stalls only the
\* operation whose call invoked it; every other operation in flight
\* eventually completes.
C22_Original ==
    \A c \in Operations :
        (execs[c].status = "running") ~> (Ended(c) \/ StalledByOwnCallback(c))

\* C22, amended: a callback whose promise never settles stalls only the
\* operation whose call invoked it, and every other operation in flight
\* eventually completes, unless some callback never returns at all: that
\* one keeps the event loop, and no operation goes on.
C22_PendingStallsOnlyItsCall ==
    \A c \in Operations :
        (execs[c].status = "running")
            ~> (Ended(c) \/ StalledByOwnCallback(c) \/ \E d \in Operations : HeldInSpin(d))

C22_Witness ==
    /\ execs["opA"].status = "awaiting"
    /\ execs["opB"].status = "returned"
    /\ \E k \in 1..Len(callLogs["opB"]) :
          callLogs["opB"][k].id = ConcChain[execs["opA"].idx].id
    /\ Len(callLogs["opB"]) = Len(ConcChain)

(***************************************************************************)
(* Properties of start(), the accessors and the loader's leftovers         *)
(* (SpecLoad)                                                              *)
(***************************************************************************)
RequestHandled == request.op # "none"

\* C23: plugin loading runs once and has finished, and the plugin routes
\* have been installed once, before any request is accepted: whenever the
\* server listens or has handled a request, loadPlugins has returned and
\* every route is installed exactly once; after loadPlugins returned
\* nothing is loaded again and nothing is installed twice.
C23_LoadedBeforeServing ==
    /\ []((phase = "serving" \/ RequestHandled) =>
             (loadPc = "returned" /\ installed = routes))
    /\ [][/\ loadPc = "returned" =>
                (/\ loadPc' = "returned"
                 /\ plugins' = plugins
                 /\ hooks' = hooks
                 /\ loadLog' = loadLog
                 /\ initLog' = initLog)
          /\ phase \in {"listening", "serving"} => installed' = installed]_vars

C23_Witness ==
    /\ RequestHandled
    /\ response = 200
    /\ ran = <<"beforeUpload", "afterUpload">>
    /\ Len(PluginChain) = 2
    /\ Len(installed) = 2

\* C27: getRoutes() and getPluginInfo() are pure read accessors: a call
\* leaves the plugin map, the hook registrations and the route list
\* unchanged, and calls of the same accessor return equal results.
C27_AccessorsPure ==
    /\ [](\A i, j \in 1..Len(accessLog) :
             accessLog[i].fn = accessLog[j].fn => accessLog[i].result = accessLog[j].result)
    /\ [][accessLog' # accessLog =>
             (plugins' = plugins /\ hooks' = hooks /\ routes' = routes)]_vars

C27_Witness ==
    /\ Len(accessLog) = MaxAccessorCalls + 1
    /\ accessLog[2].fn = "getRoutes"
    /\ accessLog[3].fn = "getPluginInfo"
    /\ Len(accessLog[2].result) = 2
    /\ Len(accessLog[3].result) = 1

\* C28: after loadPlugins, every registered hook callback and every
\* registered route belongs to a plugin listed by getPluginInfo(): a plugin
\* whose init registered something and then failed leaves nothing behind.
C28_Original ==
    loadPc = "returned" =>
        /\ HookOwners \subseteq InfoKeys
        /\ Range(routes) \subseteq InfoKeys

(***************************************************************************)
(* Properties of getFolderMetadata (SpecMeta)                              *)
(***************************************************************************)
RECURSIVE SumOver(_, _)
SumOver(n, f) == IF n = 0 THEN 0 ELSE SumOver(n - 1, f) + f[n]

\* the sizes of the direct children of a subdirectory, added up
ChildrenSize(item) ==
    SumOver(Len(item.items), [j \in 1..Len(item.items) |-> item.items[j].size])

AllReadable == \A i \in 1..Len(folder) : folder[i].readable

\* C24: itemCount is the number of direct children, and totalSize is the
\* sum over the direct children of the size of a file and, for a
\* subdirectory, of the sizes of its own direct children.
C24_CountAndTwoLevelSize ==
    (metaResult.kind # "none" /\ AllReadable) =>
        /\ metaResult.kind = "ok"
        /\ metaResult.itemCount = Len(folder)
        /\ metaResult.totalSize =
              SumOver(Len(folder),
                      [i \in 1..Len(folder) |->
                          IF folder[i].isDir THEN ChildrenSize(folder[i])
                          ELSE folder[i].size])

C24_Witness ==
    /\ Len(folder) = 4
    /\ \E i \in 1..4 : folder[i] = Dir(TRUE, <<>>)
    /\ {folder[i].size : i \in {k \in 1..4 : ~folder[k].isDir}} = {10, 20, 30}
    /\ metaResult = [kind |-> "ok", itemCount |-> 4, totalSize |-> 60]

\* C25: a subdirectory that cannot be read contributes zero to totalSize
\* and the summary still returns, counting and summing the other children.
C25_Original ==
    metaResult.kind # "none" =>
        /\ metaResult.kind = "ok"
        /\ metaResult.itemCount = Len(folder)
        /\ metaResult.totalSize =
              SumOver(Len(folder),
                      [i \in 1..Len(folder) |->
                          IF ~folder[i].isDir THEN folder[i].size
                          ELSE IF folder[i].readable THEN ChildrenSize(folder[i])
                          ELSE 0])

(***************************************************************************)
(* Properties of the answer to a path that fails validation (SpecEnv)      *)
(***************************************************************************)
\* C26: in every operation that resolves a user-supplied path, a failure
\* of validatePath, with either message, is answered 400 and never 500,
\* changes nothing on the disk and runs no hook.
C26_Original ==
    (request.op # "none" /\ pathResult.kind = "error") =>
        /\ response = 400
        /\ files = InitialFiles
        /\ dirs = InitialDirs
        /\ touched = {}
        /\ ran = <<>>

(***************************************************************************)
(* Properties of the order of hooks and effect (SpecSteps)                 *)
(***************************************************************************)
\* the step starts the chain of hookName
Starts(hookName) == ran' = Append(ran, hookName)

\* the chain of hookName has run to its end without rejecting
Completed(hookName) ==
    /\ \E i \in 1..Len(ran) : ran[i] = hookName
    /\ ~executeHook(hooks, hookName, OpPayload).threw

\* C30: hooks bracket the effect in order.  In a delete-file the file is
\* unlinked only after the beforeDelete chain completed, and the afterDelete
\* chain starts only after the unlink succeeded; in an upload the
\* afterUpload chain starts only after the beforeUpload chain completed, the
\* file being stored; in a download the afterDownload chain starts only
\* after the transfer finished without error.
C30_HooksBracketEffect ==
    [][/\ (request.op = "deleteFile" /\ files' # files) =>
              /\ Completed("beforeDelete")
              /\ ran' = <<"beforeDelete">>
       /\ Starts("afterDelete") =>
              /\ request.op = "deleteFile"
              /\ ran = <<"beforeDelete">>
              /\ Touch("remove", filePathOf(request)) \in touched
              /\ filePathOf(request) \notin files
       /\ Starts("afterUpload") =>
              /\ request.op = "upload"
              /\ ran = <<"beforeUpload">>
              /\ Completed("beforeUpload")
              /\ uploaded # {} /\ uploaded \subseteq files
       /\ Starts("afterDownload") =>
              /\ request.op = "download"
              /\ ran = <<"beforeDownload">>
              /\ Completed("beforeDownload")
              /\ response = 200
              /\ Touch("read", filePathOf(request)) \in touched]_vars

C30_Witness ==
    /\ request.op = "deleteFile"
    /\ ran = <<"beforeDelete", "afterDelete">>
    /\ filePathOf(request) \in InitialFiles \ files
    /\ response = 200

(***************************************************************************)
(* Properties of two delete-file requests in flight (SpecRace)             *)
(***************************************************************************)
TargetOf(c) == pathJoin(UPLOAD_DIR, deletes[c].name)

\* both requests have arrived and name the same file of the initial disk
SameExistingFile(c, d) ==
    /\ c # d
    /\ deletes[c].pc # "idle" /\ deletes[d].pc # "idle"
    /\ TargetOf(c) = TargetOf(d)
    /\ TargetOf(c) \in InitialFiles

RanAfterDelete(c) == \E i \in 1..Len(deletes[c].ran) : deletes[c].ran[i] = "afterDelete"

\* C31: of two delete-file requests for the same existing file, in every
\* interleaving at most one answers success and the afterDelete chain runs
\* at most once; once both have ended, one of them has an error answer and
\* ran no afterDelete.
C31_OneDeleteWins ==
    \A c, d \in Operations :
        SameExistingFile(c, d) =>
            /\ ~(deletes[c].response = 200 /\ deletes[d].response = 200)
            /\ ~(RanAfterDelete(c) /\ RanAfterDelete(d))
            /\ (deletes[c].pc = "done" /\ deletes[d].pc = "done") =>
                  \E loser \in {c, d} :
                      /\ deletes[loser].response \in {403, 404, 500}
                      /\ ~RanAfterDelete(loser)

C31_Witness ==
    /\ SameExistingFile("opA", "opB")
    /\ deletes["opA"].name # deletes["opB"].name
    /\ deletes["opA"].response = 200 /\ RanAfterDelete("opA")
    /\ deletes["opB"].response = 500 /\ deletes["opB"].ran = <<"beforeDelete">>

(***************************************************************************)
(* Properties of the target of a download and of a delete-file (SpecSteps) *)
(***************************************************************************)
\* the before chain of the request returned a payload other than the one
\* the handler built
PayloadReplaced(hookName) ==
    /\ \E i \in 1..Len(ran) : ran[i] = hookName
    /\ executeHook(hooks, hookName, OpPayload).value # OpPayload

\* C33: the file a download sends and the file a delete-file unlinks is the
\* path computed from the request before the hooks ran, whatever payload
\* the beforeDownload or beforeDelete chain returned.
C33_TargetFromRequest ==
    /\ request.op = "deleteFile" =>
          /\ touched \subseteq {Touch("remove", filePathOf(request))}
          /\ files \in {InitialFiles, InitialFiles \ {filePathOf(request)}}
    /\ request.op = "download" =>
          /\ touched \subseteq {Touch("read", filePathOf(request))}
          /\ files = InitialFiles

C33_Witness ==
    /\ request.op = "deleteFile"
    /\ PayloadReplaced("beforeDelete")
    /\ payloadFilePath(request, executeHook(hooks, "beforeDelete", OpPayload).value)
          # filePathOf(request)
    /\ touched = {Touch("remove", filePathOf(request))}
    /\ ReplacedPath \in files

(***************************************************************************)
(* Properties of the listing (SpecList)                                    *)
(***************************************************************************)
ListChain == callbacksOf(hooks, "transformFileList")

ListAnswered == listing.status # -1

\* the payload the chain returned has a files value
ReturnsFiles == Len(ListChain) > 0 /\ \A k \in 1..Len(ListChain) : ListChain[k].kind = "value"

\* a callback threw something without a message: executeHook itself fails
ChainFails == \E k \in 1..Len(ListChain) : ListChain[k].kind = "throwNull"

\* the chain returns, and what it returns is not null
ChainReturnsObject ==
    \A k \in 1..Len(ListChain) : ListChain[k].kind \notin {"throwNull", "null"}

\* C34: the listing answers with the files field of the payload the
\* transformFileList chain returned; when no callback is registered, or the
\* payload returned has no files value, it answers with the unmodified
\* listing computed from disk.
C34_Original ==
    (ListAnswered /\ ~ChainFails) =>
        /\ listing.status = 200
        /\ listing.body = itemDetails(folder)
        /\ listing.transformedBy =
              IF ReturnsFiles THEN [k \in 1..Len(ListChain) |-> ListChain[k].id] ELSE <<>>

\* the entries whose folder metadata cannot be computed
FailedEntries ==
    {i \in 1..Len(folder) :
        folder[i].isDir /\ folderMetadataOf(folder[i]).kind = "error"}

\* C35: a failure while computing the folder metadata of one directory
\* entry does not fail the listing: every entry is in the answer, and that
\* directory entry carries itemCount 0.
C35_MetadataFailureKeepsListing ==
    (ListAnswered /\ ChainReturnsObject) =>
        /\ listing.status = 200
        /\ Len(listing.body) = Len(folder)
        /\ \A i \in FailedEntries :
              listing.body[i].isDirectory /\ listing.body[i].itemCount = 0
        /\ \A i \in (1..Len(folder)) \ FailedEntries :
              listing.body[i].itemCount =
                  IF folder[i].isDir THEN Len(folder[i].items) ELSE -1

C35_Witness ==
    /\ ListAnswered
    /\ Len(ListChain) = 0
    /\ Len(folder) = 3
    /\ FailedEntries = {2}
    /\ ~folder[2].readable
    /\ listing.status = 200
    /\ listing.body[2].itemCount = 0
    /\ listing.body[3].itemCount = 2

(***************************************************************************)
(* Properties of the precondition checks (SpecSteps)                       *)
(***************************************************************************)
\* the request names a file the disk does not have
MissingFile ==
    /\ request.op \in {"download", "deleteFile"}
    /\ ~(filePathOf(request) \in InitialFiles \/ isDirectory(InitialDirs, filePathOf(request)))

\* the request is an upload without a file part
NoFilesUpload == request.op = "upload" /\ basename(request.name) = <<>>

\* the destination of the upload is valid and exists or can be created
DestinationReady ==
    LET v == validatePath(IF request.path = <<>> THEN <<"/">> ELSE request.path)
    IN  v.kind = "ok" /\ ancestorsAndSelf(v.path) \cap InitialFiles = {}

NothingRemoved ==
    /\ InitialFiles \subseteq files
    /\ InitialDirs \subseteq dirs
    /\ \A t \in touched : t.how # "remove"

Matches(r) == r.method = served.method /\ r.path = served.path

CoreMatches == \E i \in 1..Len(CoreRoutes) : Matches(CoreRoutes[i])

\* the calls of addRoute for the method and the path of the request
MatchingCalls == {routes[i].call : i \in {j \in 1..Len(routes) : Matches(routes[j])}}

\* C37: getRoutes() returns the registrations in the order addRoute was
\* called, start() installs them in that order behind the routes of the
\* server, so that among plugin routes with the same method and path the
\* first registrant handles the request, and a plugin route never handles
\* a request a route of the server has.
C37_RegistrationOrderDecides ==
    /\ \A i \in 1..Len(routes) : getRoutes(routes).result[i].call = i
    /\ phase \in {"listening", "serving"} => installed = routes
    /\ served # NotServed =>
          /\ CoreMatches => served.owner = "core"
          /\ (~CoreMatches /\ MatchingCalls # {}) =>
                /\ served.call \in MatchingCalls
                /\ \A c \in MatchingCalls : served.call <= c
          /\ (~CoreMatches /\ MatchingCalls = {}) => served.owner = "none"

C37_Witness ==
    /\ served # NotServed
    /\ ~CoreMatches
    /\ Cardinality(MatchingCalls) = 2
    /\ served.call = 2
    /\ \E i \in 1..Len(routes) : Matches(routes[i]) /\ routes[i].owner # served.owner
    /\ \E i \in 1..Len(routes) : routes[i].path = "/api/plugins" /\ routes[i].method = "GET"

====
